---------------------------- MODULE Spec2Model ----------------------------
(***************************************************************************)
(* The smart-home skill adapter of lambda-razberry: seven revisions of one *)
(* Lambda handler that translate an Alexa directive into one HTTP call     *)
(* against the device backend and the HTTP outcome into the envelope given *)
(* to context.succeed / context.fail.                                      *)
(*                                                                         *)
(* Handler variants (Variants below):                                      *)
(*   "code.js:1"      src/code.js 1-200       legacy, http callbacks       *)
(*   "code.js:201"    src/code.js 201-436     legacy, original sample      *)
(*   "code.js:438"    src/code.js 438-889     versioned, PUT, throws on    *)
(*                                            a non-200 status             *)
(*   "index.js"       src/index.js            versioned, PUT               *)
(*   "part_001:1"     src/unnamed/part_001 1-196    legacy, promises       *)
(*   "part_001:197"   src/unnamed/part_001 197-467  versioned, first cut   *)
(*   "part_000"       src/unnamed/part_000    versioned, POST, latest      *)
(*                                                                         *)
(* JavaScript values: a string the code only compares or relays is a TLA+  *)
(* string; a string the code converts (trim, replace, interpolation into a *)
(* path) is a sequence of tokens; an object is a record.                   *)
(***************************************************************************)
EXTENDS Integers, Sequences, FiniteSets

VARIABLES
    variant,      \* the handler revision that is deployed
    event,        \* the inbound event of the invocation
    pc,           \* "start", "waiting" (transport call in flight), "done"
    pending,      \* the route whose callbacks wait for the transport
    calls,        \* the transport calls issued, in order
    response,     \* what the transport delivered for the call, once it has
    completions,  \* the calls of context.succeed / context.fail, in order
    thrown,       \* exception that escaped every handler, or "none"
    now,          \* the last value read from the clock (Date.now())
    probe,        \* input and output of a direct call of the resolver
    other         \* a second invocation the host runs at the same time

vars == <<variant, event, pc, pending, calls, response, completions, thrown, now,
          probe, other>>

-----------------------------------------------------------------------------
(* Bounds of the model *)

\* longest device list a transport response carries
MaxBody == 2
\* largest clock value (milliseconds since the invocation was received)
MaxClock == 1

-----------------------------------------------------------------------------
(* JavaScript values *)

\* the value undefined, where a plain string is expected
undefined == "<undefined>"
\* the value undefined, where a token string is expected
undefinedString == <<undefined>>
\* the object {}
EmptyObject == [x \in {} |-> x]

\* truthiness of a plain string, and of a token string
Truthy(a) == a \notin {undefined, ""}
TruthyString(s) == s # undefinedString /\ s # <<>>

\* `${x}`: interpolation into a template literal
Interpolate(s) == IF s = undefinedString THEN <<"undefined">> ELSE s

DigitChar == <<"0", "1", "2", "3", "4", "5", "6", "7", "8", "9">>

\* `${n}` of a non-negative number: its decimal digits
RECURSIVE NumberToString(_)
NumberToString(n) ==
    IF n < 10 THEN <<DigitChar[n + 1]>>
    ELSE NumberToString(n \div 10) \o <<DigitChar[(n % 10) + 1]>>

\* String.prototype.trim
RECURSIVE TrimLeft(_)
TrimLeft(s) == IF s # <<>> /\ Head(s) = " " THEN TrimLeft(Tail(s)) ELSE s
RECURSIVE TrimRight(_)
TrimRight(s) ==
    IF s # <<>> /\ s[Len(s)] = " " THEN TrimRight(SubSeq(s, 1, Len(s) - 1)) ELSE s
trim(s) == TrimRight(TrimLeft(s))

\* String.prototype.replace(from, to) with string arguments: the first
\* occurrence only
RECURSIVE replace(_, _, _)
replace(s, from, to) ==
    IF s = <<>> THEN <<>>
    ELSE IF Head(s) = from THEN <<to>> \o Tail(s)
    ELSE <<Head(s)>> \o replace(Tail(s), from, to)

\* s contains sub as a substring
Contains(s, sub) ==
    \E i \in 1..(Len(s) - Len(sub) + 1) : SubSeq(s, i, i + Len(sub) - 1) = sub

\* JSON.stringify of a plain object: the text whose parse is the object
JSONstringify(obj) == [json |-> obj]

\* JSON.stringify of an Error: only its enumerable own properties; name,
\* message and stack are not among them
JSONstringifyError(error) == [json |-> [code |-> error.code]]

-----------------------------------------------------------------------------
(* The handler revisions *)

Legacy == {"code.js:1", "code.js:201", "part_001:1"}
Versioned == {"code.js:438", "index.js", "part_001:197", "part_000"}
Variants == Legacy \cup Versioned

\* ERROR_TYPES (the same twelve values in every versioned revision)
ERROR_TYPES ==
    [endpointUnreachable |-> "ENDPOINT_UNREACHABLE",
     noSuchEndpoint |-> "NO_SUCH_ENDPOINT",
     invalidValue |-> "INVALID_VALUE",
     valueOutOfRange |-> "VALUE_OUT_OF_RANGE",
     temperatureValueOutOfRange |-> "TEMPERATURE_VALUE_OUT_OF_RANGE",
     invalidDirective |-> "INVALID_DIRECTIVE",
     firmwareOutOfRange |-> "FIRMWARE_OUT_OF_RANGE",
     hardwareMalfunction |-> "HARDWARE_MALFUNCTION",
     rateLimitExceeded |-> "RATE_LIMIT_EXCEEDED",
     invalidAuthorizationCredential |-> "INVALID_AUTHORIZATION_CREDENTIAL",
     expiredAuthorizationCredential |-> "EXPIRED_AUTHORIZATION_CREDENTIAL",
     internalError |-> "INTERNAL_ERROR"]

\* SUPPORTED_INTERFACES
SUPPORTED_INTERFACES ==
    [Alexa_Discovery |-> "Alexa.Discovery",
     Alexa_PowerController |-> "Alexa.PowerController",
     Alexa_ChannelController |-> "Alexa.ChannelController",
     Alexa_PlaybackController |-> "Alexa.PlaybackController",
     Alexa_InputController |-> "Alexa.InputController",
     Alexa_StepSpeaker |-> "Alexa.StepSpeaker"]

\* SUPPORTED_PLAYBACK_DIRECTIVES
SUPPORTED_PLAYBACK_DIRECTIVES ==
    <<"FastForward", "Next", "Pause", "Play", "Previous", "Rewind",
      "StartOver", "Stop">>

\* SUPPORTED_ENDPOINT_TYPES / SUPPORTED_DEVICES: the own property names
SUPPORTED_ENDPOINT_TYPES(v) ==
    IF v = "part_000" THEN {"zwitch", "roku", "television"}
    ELSE {"switchBinary", "roku", "television"}

\* the namespaces of the legacy protocol
LegacyDiscovery == "Alexa.ConnectedHome.Discovery"
LegacyControl == "Alexa.ConnectedHome.Control"

-----------------------------------------------------------------------------
(* Inputs: the inbound event *)

\* access tokens as the event carries them (absent, plain, padded)
Tokens == {undefinedString, <<"t">>, <<" ", "t", " ">>}
\* endpoint ids as the event carries them
Ids == {<<"e1">>, <<"a", "#", "b">>, <<"a", ".", "b">>}
\* the endpoint field: absent, or present with an id
Endpoints ==
    {[present |-> FALSE, endpointId |-> <<>>]}
        \cup {[present |-> TRUE, endpointId |-> i] : i \in Ids}

\* the payload fields the control directives read (fixed sample values)
ControlPayload ==
    [channel |-> [number |-> "5"],
     channelMetadata |-> [name |-> "news"],
     channelCount |-> "1",
     input |-> "HDMI1",
     mute |-> "true",
     volumeSteps |-> "2"]

ControlNamespaces ==
    {SUPPORTED_INTERFACES.Alexa_PowerController,
     SUPPORTED_INTERFACES.Alexa_ChannelController,
     SUPPORTED_INTERFACES.Alexa_InputController,
     SUPPORTED_INTERFACES.Alexa_StepSpeaker,
     SUPPORTED_INTERFACES.Alexa_PlaybackController}

\* the directive names the routing table lists for a namespace
SupportedNames(ns) ==
    CASE ns = SUPPORTED_INTERFACES.Alexa_Discovery -> {"Discover"}
      [] ns = SUPPORTED_INTERFACES.Alexa_PowerController -> {"TurnOn", "TurnOff"}
      [] ns = SUPPORTED_INTERFACES.Alexa_ChannelController ->
            {"ChangeChannel", "SkipChannels"}
      [] ns = SUPPORTED_INTERFACES.Alexa_InputController -> {"SelectInput"}
      [] ns = SUPPORTED_INTERFACES.Alexa_StepSpeaker -> {"SetMute", "AdjustVolume"}
      [] ns = SUPPORTED_INTERFACES.Alexa_PlaybackController ->
            {SUPPORTED_PLAYBACK_DIRECTIVES[i] : i \in DOMAIN SUPPORTED_PLAYBACK_DIRECTIVES}
      [] ns = LegacyDiscovery -> {"DiscoverAppliancesRequest"}
      [] ns = LegacyControl -> {"TurnOnRequest", "TurnOffRequest"}
      [] OTHER -> {}

\* names no routing table lists, and a name of another namespace
OtherNames(ns) ==
    {"Bogus"} \cup
    (IF ns \in {SUPPORTED_INTERFACES.Alexa_PowerController, LegacyControl}
     THEN {"Discover"} ELSE {"TurnOn"})

\* an event object with every level present
FullEvent(ns, name, token, endpoint) ==
    [shape |-> "full", namespace |-> ns, name |-> name, token |-> token,
     endpoint |-> endpoint]

\* an event that stops short: null, {} (no directive), {directive: {}} (no
\* header; for a legacy handler {} is the event without header)
BrokenEvent(shape) ==
    [shape |-> shape, namespace |-> undefined, name |-> undefined,
     token |-> undefinedString, endpoint |-> [present |-> FALSE, endpointId |-> <<>>]]

NoEndpoint == [present |-> FALSE, endpointId |-> <<>>]

\* events in the versioned shape {directive: {header, payload, endpoint?}}
VersionedEvents ==
    {BrokenEvent(s) : s \in {"null", "noDirective", "noHeader"}}
    \cup {FullEvent(ns, name, <<"t">>, ep) :
            ns \in {undefined, ""}, name \in {"Discover", "TurnOn"},
            ep \in {NoEndpoint}}
    \cup {FullEvent(ns, name, <<"t">>, ep) :
            ns \in {SUPPORTED_INTERFACES.Alexa_Discovery,
                    SUPPORTED_INTERFACES.Alexa_PowerController},
            name \in {undefined, ""},
            ep \in {NoEndpoint, [present |-> TRUE, endpointId |-> <<"e1">>]}}
    \cup {FullEvent("Alexa.ThermostatController", name, <<"t">>, ep) :
            name \in {"Discover", "TurnOn", "Bogus"},
            ep \in {NoEndpoint, [present |-> TRUE, endpointId |-> <<"e1">>]}}
    \cup {FullEvent(SUPPORTED_INTERFACES.Alexa_Discovery, name, tok, NoEndpoint) :
            name \in {"Discover", "Bogus", "TurnOn"}, tok \in Tokens}
    \cup UNION {{FullEvent(ns, name, tok, ep) :
                    name \in SupportedNames(ns) \cup OtherNames(ns),
                    tok \in {undefinedString, <<"t">>}, ep \in Endpoints} :
                ns \in ControlNamespaces}

\* events in the legacy shape {header, payload: {accessToken, appliance}}
LegacyEvents ==
    {BrokenEvent(s) : s \in {"null", "noHeader"}}
    \cup {FullEvent(ns, name, <<"t">>, NoEndpoint) :
            ns \in {undefined, "", "Alexa.ConnectedHome.Query"},
            name \in {"DiscoverAppliancesRequest", "TurnOnRequest", undefined}}
    \cup {FullEvent(LegacyDiscovery, name, tok, NoEndpoint) :
            name \in {"DiscoverAppliancesRequest", "Bogus", undefined}, tok \in Tokens}
    \cup {FullEvent(LegacyControl, name, tok, ep) :
            name \in SupportedNames(LegacyControl) \cup OtherNames(LegacyControl)
                        \cup {undefined},
            tok \in Tokens, ep \in Endpoints}

EventsOf(v) == IF v \in Legacy THEN LegacyEvents ELSE VersionedEvents

-----------------------------------------------------------------------------
(* Inputs: the outcome of the transport call *)

\* a device descriptor of the backend's list; it carries the fields of the
\* /endpoints list (id, name, description, manufacturer, type) and those of
\* the older /devices list (id, metrics, deviceType)
Descriptor(id, name, type, title, level) ==
    [id |-> id, name |-> name, description |-> name,
     manufacturer |-> IF name = undefined THEN undefined ELSE "X",
     type |-> type, deviceType |-> type,
     metrics |-> [title |-> title, level |-> level]]

Descriptors ==
    {Descriptor(<<"d", ".", "1">>, "Lamp", "switchBinary", "Lamp", "on"),
     Descriptor(<<"z", ".", "2">>, "Plug", "zwitch", "Plug", "off"),
     Descriptor(<<"a", ".", "b", ".", "c">>, "TV", "television", "TV", "on"),
     Descriptor(<<"r1">>, "Roku", "roku", "Roku", "idle"),
     Descriptor(<<"h1">>, "Heat", "thermostat", "Heat", "on"),
     Descriptor(<<"n1">>, undefined, "switchBinary", undefined, "on"),
     Descriptor(<<>>, "Ghost", "television", "Ghost", undefined)}

\* the device lists of at most MaxBody descriptors
DescriptorLists == UNION {[1..n -> Descriptors] : n \in 0..MaxBody}

\* a device-state object as the control routes of the backend answer it
StateObject(state) ==
    [state |-> state, isoTimestamp |-> <<"2017-11-05T00:00:00Z">>,
     uncertaintyMs |-> "500"]

\* response bodies: text that is no JSON, the JSON null, a JSON object, a
\* JSON array
NoJSON == [kind |-> "text"]
JSONnull == [kind |-> "null"]
JSONobject(o) == [kind |-> "object", value |-> o]
JSONarray(a) == [kind |-> "array", value |-> a]

StateBodies ==
    {NoJSON, JSONnull} \cup {JSONobject(StateObject(st)) : st \in {"on", "off", undefined}}

\* the bodies a transport response may carry on a route
BodiesFor(route) ==
    IF route = "discovery"
    THEN {NoJSON, JSONnull, JSONobject(StateObject("on"))}
            \cup {JSONarray(l) : l \in DescriptorLists}
    ELSE StateBodies \cup {JSONarray(<<>>)}

\* the status codes a transport response may carry
Statuses == {200, 404}

\* the errors the request may emit (system errors carry an enumerable code)
TransportErrors ==
    {[message |-> "connect ECONNREFUSED", code |-> "ECONNREFUSED"],
     [message |-> "socket hang up", code |-> "ECONNRESET"]}

\* new Error(msg): no enumerable property
Error(msg) == [message |-> msg, code |-> undefined]
\* the error a failed property access or call throws
TypeError == Error("TypeError")
\* the error JSON.parse throws
SyntaxError == Error("SyntaxError")

\* property access obj[key] on a parsed JSON value; the caller has checked
\* that the value is not null
Get(parsed, key) ==
    IF parsed.kind = "object" /\ key \in DOMAIN parsed.value
    THEN parsed.value[key] ELSE undefined

\* the same for a property that holds a token string
GetString(parsed, key) ==
    IF parsed.kind = "object" /\ key \in DOMAIN parsed.value
    THEN parsed.value[key] ELSE undefinedString

\* Object.assign(target, source) / the assign polyfill
assign(target, source) ==
    [k \in DOMAIN target \cup DOMAIN source |->
        IF k \in DOMAIN source THEN source[k] ELSE target[k]]

-----------------------------------------------------------------------------
(* What a run of handler code does *)

\* the synchronous part: transport calls issued, completions made, the
\* exception thrown (or "none"), the route left waiting (or "none")
Effect(c, d, x, r) == [calls |-> c, completions |-> d, thrown |-> x, pending |-> r]

succeedWith(arg) == [callback |-> "succeed", arg |-> arg]
failWith(arg) == [callback |-> "fail", arg |-> arg]

Complete(completion) == Effect(<<>>, <<completion>>, "none", "none")
Throw(error) == Effect(<<>>, <<>>, error.message, "none")
\* a plausible slip: the request is written again after it was issued
Issue_again(call, route) == Effect(<<call, call>>, <<>>, "none", route)

Issue(call, route) == Effect(<<call>>, <<>>, "none", route)

\* a transport call: method, path (tokens of the path string), body
Request(method, path, body) == [method |-> method, path |-> path, body |-> body]
NoBody == [json |-> EmptyObject, written |-> FALSE]
Written(postString) == [json |-> postString.json, written |-> TRUE]

\* the asynchronous part: completions made, the exception left uncaught
Outcome(d, x) == [completions |-> d, thrown |-> x]
Settled(completion) == Outcome(<<completion>>, "none")
Uncaught(error) == Outcome(<<>>, error.message)

\* the parts of a message string: literal or interpolated text, and the text
\* JSON.stringify made of a value
Text(str) == [text |-> str]
Json(value) == [json |-> value]
\* JSON.stringify(error)
JsonError(error) == JSONstringifyError(error)
\* an interpolated number
Num(n) == [number |-> n]
\* an argument that was not passed
NotPassed == [undefined |-> TRUE]

-----------------------------------------------------------------------------
(* src/unnamed/part_000: versioned, POST, the latest revision *)

isEventValid(e) ==
    /\ e.shape = "full"
    /\ Truthy(e.namespace)
    /\ Truthy(e.name)

\* t is the value Date.now() returns
getReply(namespace, name, payload, t) ==
    [event |->
        [header |-> [messageId |-> NumberToString(t), name |-> name,
                     namespace |-> namespace, payloadVersion |-> "3"],
         payload |-> IF payload = NotPassed THEN EmptyObject ELSE payload]]

\* getErrorReply(type, ...rest): rest are the message parts, joined by ' '
getErrorReply(type, rest, t) ==
    getReply("Alexa", "ErrorResponse", [type |-> type, message |-> rest], t)

\* a plausible slip: the type of the endpoint is not looked at
isEndpointSupported_anyType(v, endpoint) ==
    /\ TruthyString(endpoint.id)
    /\ Truthy(endpoint.name)
    /\ Truthy(endpoint.description)
    /\ Truthy(endpoint.manufacturer)

isEndpointSupported(v, endpoint) ==
    /\ TruthyString(endpoint.id)
    /\ Truthy(endpoint.name)
    /\ Truthy(endpoint.description)
    /\ Truthy(endpoint.manufacturer)
    /\ endpoint.type \in SUPPORTED_ENDPOINT_TYPES(v)

getCapability(interface) ==
    [interface |-> interface, type |-> "AlexaInterface", version |-> "1.0"]

\* a plausible slip: every revision keeps the if statements of index.js
CapabilityRules_ofIndex(v) ==
    << [types |-> {"switchBinary", "television"},
        push |-> <<SUPPORTED_INTERFACES.Alexa_PowerController>>],
       [types |-> {"television", "roku"},
        push |-> <<SUPPORTED_INTERFACES.Alexa_ChannelController,
                   SUPPORTED_INTERFACES.Alexa_PlaybackController>>],
       [types |-> {"television"},
        push |-> <<SUPPORTED_INTERFACES.Alexa_StepSpeaker,
                   SUPPORTED_INTERFACES.Alexa_InputController>>] >>

\* the if statements of getEndpointCapabilities / getDeviceCapabilities, in
\* order: the types an if statement tests for and the interfaces it pushes
CapabilityRules(v) ==
    CASE v = "part_000" ->
            << [types |-> {"zwitch", "television"},
                push |-> <<SUPPORTED_INTERFACES.Alexa_PowerController>>],
               [types |-> {"television", "roku"},
                push |-> <<SUPPORTED_INTERFACES.Alexa_ChannelController>>],
               [types |-> {"television"},
                push |-> <<SUPPORTED_INTERFACES.Alexa_StepSpeaker,
                           SUPPORTED_INTERFACES.Alexa_InputController>>],
               [types |-> {"roku"},
                push |-> <<SUPPORTED_INTERFACES.Alexa_PlaybackController>>] >>
      [] v = "code.js:438" ->
            << [types |-> {"switchBinary", "television"},
                push |-> <<SUPPORTED_INTERFACES.Alexa_PowerController>>],
               [types |-> {"television", "roku"},
                push |-> <<SUPPORTED_INTERFACES.Alexa_ChannelController>>],
               [types |-> {"television"},
                push |-> <<SUPPORTED_INTERFACES.Alexa_StepSpeaker,
                           SUPPORTED_INTERFACES.Alexa_InputController>>],
               [types |-> {"roku"},
                push |-> <<SUPPORTED_INTERFACES.Alexa_PlaybackController>>] >>
      [] v = "index.js" ->
            << [types |-> {"switchBinary", "television"},
                push |-> <<SUPPORTED_INTERFACES.Alexa_PowerController>>],
               [types |-> {"television", "roku"},
                push |-> <<SUPPORTED_INTERFACES.Alexa_ChannelController,
                           SUPPORTED_INTERFACES.Alexa_PlaybackController>>],
               [types |-> {"television"},
                push |-> <<SUPPORTED_INTERFACES.Alexa_StepSpeaker,
                           SUPPORTED_INTERFACES.Alexa_InputController>>] >>
      [] v = "part_001:197" ->
            << [types |-> {"switchBinary", "television"},
                push |-> <<SUPPORTED_INTERFACES.Alexa_PowerController>>],
               [types |-> {"television", "roku"},
                push |-> <<SUPPORTED_INTERFACES.Alexa_ChannelController,
                           SUPPORTED_INTERFACES.Alexa_PlaybackController>>],
               [types |-> {"television"},
                push |-> <<SUPPORTED_INTERFACES.Alexa_StepSpeaker>>] >>
      [] OTHER -> <<>>

\* one if statement: push its interfaces when the type is one it tests for
ApplyRule(rule, type, ret) ==
    IF type \in rule.types
    THEN ret \o [i \in DOMAIN rule.push |-> getCapability(rule.push[i])]
    ELSE ret

RECURSIVE ApplyRules(_, _, _)
ApplyRules(rules, type, ret) ==
    IF rules = <<>> THEN ret
    ELSE ApplyRules(Tail(rules), type, ApplyRule(Head(rules), type, ret))

getEndpointCapabilities(v, type) == ApplyRules(CapabilityRules(v), type, <<>>)

\* a plausible slip: the id of the endpoint is passed on as it is
getDiscoveryReply_rawId(endpoints, t) ==
    LET supported == SelectSeq(endpoints, LAMBDA d : isEndpointSupported("part_000", d))
        compatibleEndpoints ==
            [i \in DOMAIN supported |->
                [endpointId |-> supported[i].id,
                 manufacturerName |-> supported[i].manufacturer,
                 friendlyName |-> supported[i].name,
                 description |-> supported[i].description,
                 displayCategories |-> <<>>,
                 capabilities |-> getEndpointCapabilities("part_000", supported[i].type)]]
    IN  getReply(SUPPORTED_INTERFACES.Alexa_Discovery, "Discover.Response",
                 [endpoints |-> compatibleEndpoints], t)

getDiscoveryReply(endpoints, t) ==
    \* endpoints.filter(isEndpointSupported).map(...)
    LET supported == SelectSeq(endpoints, LAMBDA d : isEndpointSupported("part_000", d))
        compatibleEndpoints ==
            [i \in DOMAIN supported |->
                [endpointId |-> replace(supported[i].id, ".", "#"),
                 manufacturerName |-> supported[i].manufacturer,
                 friendlyName |-> supported[i].name,
                 description |-> supported[i].description,
                 displayCategories |-> <<>>,
                 capabilities |-> getEndpointCapabilities("part_000", supported[i].type)]]
    IN  getReply(SUPPORTED_INTERFACES.Alexa_Discovery, "Discover.Response",
                 [endpoints |-> compatibleEndpoints], t)

\* Object.assign({context: ...}, getReply('Alexa', 'Response'))
StateReport(namespace, name, value, timeOfSample, uncertainty, reply) ==
    assign([context |->
                [properties |->
                    << [namespace |-> namespace, name |-> name, value |-> value,
                        timeOfSample |-> timeOfSample,
                        uncertaintyInMilliseconds |-> uncertainty] >>]],
           reply)

getPowerControlReply(power, t) ==
    StateReport(SUPPORTED_INTERFACES.Alexa_PowerController, "powerState",
                Get(power, "state"), GetString(power, "isoTimestamp"),
                Get(power, "uncertaintyMs"), getReply("Alexa", "Response", NotPassed, t))

getInvalidDirectiveReply(directiveName, t) ==
    getErrorReply(ERROR_TYPES.invalidDirective, <<Text(directiveName)>>, t)

getServiceErrorReply(error, t) ==
    getErrorReply(ERROR_TYPES.endpointUnreachable, <<JsonError(error)>>, t)

getChannelReply(channel, t) ==
    StateReport("Alexa.ChannelController", "channel",
                [number |-> Get(channel, "state")], GetString(channel, "isoTimestamp"),
                Get(channel, "uncertaintyMs"), getReply("Alexa", "Response", NotPassed, t))

getInputReply(input, t) ==
    StateReport("Alexa.InputController", "input",
                Get(input, "state"), GetString(input, "isoTimestamp"),
                Get(input, "uncertaintyMs"), getReply("Alexa", "Response", NotPassed, t))

getStepSpeakerReply(t) == getReply("Alexa", "Response", NotPassed, t)

getPlaybackControlReply(t) ==
    assign([context |-> [properties |-> <<>>]], getReply("Alexa", "Response", NotPassed, t))

\* a plausible slip: the id of the event is used as it is
getEndpointId_asIs(e) == e.endpoint.endpointId

\* event.directive.endpoint.endpointId.replace('#', '.')
getEndpointId(e) == replace(e.endpoint.endpointId, "#", ".")

\* post(path, postData): the object is stringified and written
post(path, postData) == Request("POST", path, Written(JSONstringify(postData)))
\* get(path)
get(path) == Request("GET", path, NoBody)

EndpointPath(endpointId, interface) ==
    <<"/", "endpoints", "/">> \o Interpolate(endpointId) \o <<"/", interface>>
Query(param, accessToken) == <<"?", param, "=">> \o Interpolate(accessToken)

handleDiscoveryEvent(e) ==
    IF e.token = undefinedString THEN Throw(TypeError)
    ELSE Issue(get(<<"/", "endpoints">> \o Query("access_token", trim(e.token))),
               "discovery")

\* a plausible slip: the reply is made when the request is written, not
\* when its response has ended
handlePowerControlEvent_optimistic(e, t) ==
    IF e.name \notin {"TurnOn", "TurnOff"}
    THEN Complete(failWith(getInvalidDirectiveReply(e.name, t)))
    ELSE IF ~e.endpoint.present THEN Throw(TypeError)
    ELSE Effect(<<post(EndpointPath(getEndpointId(e), "power")
                           \o Query("access_token", e.token),
                       [state |-> IF e.name = "TurnOn" THEN "on" ELSE "off"])>>,
                <<succeedWith(getReply("Alexa", "Response", NotPassed, t))>>,
                "none", "none")

handlePowerControlEvent(e, t) ==
    IF e.name \notin {"TurnOn", "TurnOff"}
    THEN Complete(failWith(getInvalidDirectiveReply(e.name, t)))
    ELSE IF ~e.endpoint.present THEN Throw(TypeError)
    ELSE Issue(post(EndpointPath(getEndpointId(e), "power")
                        \o Query("access_token", e.token),
                    [state |-> IF e.name = "TurnOn" THEN "on" ELSE "off"]),
               "power")

handleChangeChannelEvent(e) ==
    IF ~e.endpoint.present THEN Throw(TypeError)
    ELSE Issue(post(EndpointPath(getEndpointId(e), "channel")
                        \o Query("access_token", e.token),
                    assign([metadata |-> ControlPayload.channelMetadata],
                           ControlPayload.channel)),
               "channel")

handleSkipChannelsEvent(e) ==
    IF ~e.endpoint.present THEN Throw(TypeError)
    ELSE Issue(post(EndpointPath(getEndpointId(e), "channel"),
                    [delta |-> ControlPayload.channelCount]),
               "channel")

handleChannelControlEvent(e, t) ==
    CASE e.name = "ChangeChannel" -> handleChangeChannelEvent(e)
      [] e.name = "SkipChannels" -> handleSkipChannelsEvent(e)
      [] OTHER -> Complete(failWith(getInvalidDirectiveReply(e.name, t)))

\* the endpoint is read before the directive name is looked at
handleInputControlEvent(e, t) ==
    IF ~e.endpoint.present THEN Throw(TypeError)
    ELSE IF e.name = "SelectInput"
    THEN Issue(post(EndpointPath(getEndpointId(e), "input")
                        \o Query("access_token", e.token),
                    [input |-> ControlPayload.input]),
               "input")
    ELSE Complete(failWith(getInvalidDirectiveReply(e.name, t)))

handleStepSpeakerEvent(e, t) ==
    IF ~e.endpoint.present THEN Throw(TypeError)
    ELSE IF e.name \in {"SetMute", "AdjustVolume"}
    THEN Issue(post(EndpointPath(getEndpointId(e), "volume")
                        \o Query("accessToken", e.token),
                    IF e.name = "SetMute"
                    THEN [mute |-> ControlPayload.mute]
                    ELSE [delta |-> ControlPayload.volumeSteps]),
               "volume")
    ELSE Complete(failWith(getInvalidDirectiveReply(e.name, t)))

isPlaybackDirectiveValid(directiveName) ==
    \E i \in DOMAIN SUPPORTED_PLAYBACK_DIRECTIVES :
        SUPPORTED_PLAYBACK_DIRECTIVES[i] = directiveName

handlePlaybackControlEvent(e, t) ==
    IF ~e.endpoint.present THEN Throw(TypeError)
    ELSE IF isPlaybackDirectiveValid(e.name)
    THEN Issue(post(EndpointPath(getEndpointId(e), "playback")
                        \o Query("accessToken", e.token),
                    [directive |-> e.name]),
               "playback")
    ELSE Complete(failWith(getInvalidDirectiveReply(e.name, t)))

\* a plausible slip: the default case reports the wrong error type
failUnsupportedNamespace_wrongType(namespace, t) ==
    Complete(failWith(getErrorReply(ERROR_TYPES.endpointUnreachable,
                <<Text("Unsupported namespace"), Text(namespace)>>, t)))

\* the default case of the switch of exports.handler
failUnsupportedNamespace(namespace, t) ==
    Complete(failWith(getErrorReply(ERROR_TYPES.internalError,
                <<Text("Unsupported namespace"), Text(namespace)>>, t)))

\* exports.handler
handler(e, t) ==
    IF isEventValid(e)
    THEN CASE e.namespace = SUPPORTED_INTERFACES.Alexa_Discovery ->
                handleDiscoveryEvent(e)
           [] e.namespace = SUPPORTED_INTERFACES.Alexa_PowerController ->
                handlePowerControlEvent(e, t)
           [] e.namespace = SUPPORTED_INTERFACES.Alexa_InputController ->
                handleInputControlEvent(e, t)
           [] e.namespace = SUPPORTED_INTERFACES.Alexa_ChannelController ->
                handleChannelControlEvent(e, t)
           [] e.namespace = SUPPORTED_INTERFACES.Alexa_StepSpeaker ->
                handleStepSpeakerEvent(e, t)
           [] e.namespace = SUPPORTED_INTERFACES.Alexa_PlaybackController ->
                handlePlaybackControlEvent(e, t)
           [] OTHER -> failUnsupportedNamespace(e.namespace, t)
    ELSE Complete(failWith(getErrorReply(ERROR_TYPES.internalError,
                    <<Text("Invalid event"), Json(e)>>, t)))

\* httpPromise, the response's 'end' listener: the promise resolves with the
\* parsed body or rejects, or JSON.parse throws out of the listener
httpPromise(status, body) ==
    IF status = 200
    THEN IF body.kind = "text"
         THEN [state |-> "thrown", value |-> body, error |-> SyntaxError]
         ELSE [state |-> "resolved", value |-> body, error |-> SyntaxError]
    ELSE [state |-> "rejected", value |-> body, error |-> Error("HTTP status")]

\* the .then(...).then(...).catch(...) chain of a route, run on a promise
\* that resolved with value (rejected = FALSE) or rejected with error
chain(route, rejected, value, error, t) ==
    CASE route = "discovery" ->
            IF ~rejected /\ value.kind = "array"
            THEN Settled(succeedWith(getDiscoveryReply(value.value, t)))
            ELSE Settled(succeedWith(getDiscoveryReply(<<>>, t)))
      [] route = "power" ->
            IF rejected THEN Settled(failWith(getServiceErrorReply(error, t)))
            ELSE IF value.kind = "null"
            THEN Settled(failWith(getServiceErrorReply(TypeError, t)))
            ELSE Settled(succeedWith(getPowerControlReply(value, t)))
      [] route = "channel" ->
            IF rejected THEN Settled(failWith(getServiceErrorReply(error, t)))
            ELSE IF value.kind = "null"
            THEN Settled(failWith(getServiceErrorReply(TypeError, t)))
            ELSE Settled(succeedWith(getChannelReply(value, t)))
      [] route = "input" ->
            \* .catch(error => fail(getServiceErrorReply(error)), context):
            \* fail receives no context and throws inside the catch handler
            IF rejected \/ value.kind = "null" THEN Uncaught(TypeError)
            ELSE Settled(succeedWith(getInputReply(value, t)))
      [] route = "volume" ->
            IF rejected THEN Settled(failWith(getServiceErrorReply(error, t)))
            ELSE Settled(succeedWith(getStepSpeakerReply(t)))
      [] route = "playback" ->
            IF rejected THEN Settled(failWith(getServiceErrorReply(error, t)))
            ELSE Settled(succeedWith(getPlaybackControlReply(t)))

onEnd(route, status, body, t) ==
    LET p == httpPromise(status, body)
    IN  IF p.state = "thrown" THEN Uncaught(p.error)
        ELSE chain(route, p.state = "rejected", p.value, p.error, t)

onError(route, error, t) == chain(route, TRUE, NoJSON, error, t)

-----------------------------------------------------------------------------
(* src/index.js: versioned, PUT; shares getResponse, getErrorResponse, put  *)
(* and the synchronous discovery code with the other PUT revisions         *)

\* a plausible slip: the header literal is the one of the legacy revision
getResponse_version2(namespace, name, payload, t) ==
    [event |->
        [header |-> [messageId |-> NumberToString(t), name |-> name,
                     namespace |-> namespace, payloadVersion |-> "2"],
         payload |-> IF payload = NotPassed THEN EmptyObject ELSE payload]]

getResponse(namespace, name, payload, t) ==
    [event |->
        [header |-> [messageId |-> NumberToString(t), name |-> name,
                     namespace |-> namespace, payloadVersion |-> "3"],
         payload |-> IF payload = NotPassed THEN EmptyObject ELSE payload]]

\* a plausible slip: the text is put under another key of the payload
getErrorResponse_description(type, message, t) ==
    getResponse("Alexa", "ErrorResponse", [type |-> type, description |-> message], t)

getErrorResponse(type, message, t) ==
    getResponse("Alexa", "ErrorResponse", [type |-> type, message |-> message], t)

\* put(path, postData): postData is the stringified body
put(path, postData) == Request("PUT", path, Written(postData))

getDiscoveryAlexaResponse(alexaEndpoints, t) ==
    getResponse(SUPPORTED_INTERFACES.Alexa_Discovery, "Discover.Response",
                [endpoints |-> alexaEndpoints], t)

\* the two .then steps of handleDiscoveryEvent after the body is parsed
\* (index.js and code.js:438): filter and map
\* a plausible slip: find in the place of filter, so that only the first
\* supported endpoint is kept
alexaEndpointsOf_first(v, endpoints) ==
    LET all == SelectSeq(endpoints, LAMBDA d : isEndpointSupported(v, d))
        supported == IF all = <<>> THEN <<>> ELSE <<Head(all)>>
    IN  [i \in DOMAIN supported |->
            [endpointId |-> supported[i].id,
             manufacturerName |-> supported[i].manufacturer,
             friendlyName |-> supported[i].name,
             description |-> supported[i].description,
             displayCategories |-> <<>>,
             capabilities |-> getEndpointCapabilities(v, supported[i].type)]]

alexaEndpointsOf(v, endpoints) ==
    LET supported == SelectSeq(endpoints, LAMBDA d : isEndpointSupported(v, d))
    IN  [i \in DOMAIN supported |->
            [endpointId |-> supported[i].id,
             manufacturerName |-> supported[i].manufacturer,
             friendlyName |-> supported[i].name,
             description |-> supported[i].description,
             displayCategories |-> <<>>,
             capabilities |-> getEndpointCapabilities(v, supported[i].type)]]

\* JSON.parse(endpointResponse.responseText) succeeds and its result has
\* properties to read
Parses(body) == body.kind \notin {"text", "null"}

getPowerControlAlexaResponse(body, t) ==
    StateReport(SUPPORTED_INTERFACES.Alexa_PowerController, "powerState",
                Get(body, "state"), GetString(body, "isoTimestamp"),
                Get(body, "uncertaintyMs"), getResponse("Alexa", "Response", NotPassed, t))

getHttpStatusErrorResponse(status, t) ==
    getErrorResponse(ERROR_TYPES.internalError,
                     <<Text("Unexpected HTTP statusCode: "), Num(status)>>, t)

getPutErrorResponse(error, t) ==
    getErrorResponse(ERROR_TYPES.endpointUnreachable,
                     <<Text("Failed PUT request: "), JsonError(error)>>, t)

\* a plausible slip: the else is missing, and the request is written after
\* the directive name was rejected
handlePowerControlEvent_index_noElse(e, t) ==
    IF ~e.endpoint.present THEN Throw(TypeError)
    ELSE Effect(<<put(EndpointPath(e.endpoint.endpointId, "power")
                          \o Query("access_token", e.token),
                      JSONstringify([state |-> IF e.name = "TurnOn" THEN "on" ELSE "off"]))>>,
                IF e.name \notin {"TurnOn", "TurnOff"}
                THEN <<failWith(getErrorResponse(ERROR_TYPES.invalidDirective,
                        <<Text("Unsupported directive name: "), Text(e.name)>>, t))>>
                ELSE <<>>,
                "none", "power")

handlePowerControlEvent_index(e, t) ==
    IF e.name \notin {"TurnOn", "TurnOff"}
    THEN Complete(failWith(getErrorResponse(ERROR_TYPES.invalidDirective,
                    <<Text("Unsupported directive name: "), Text(e.name)>>, t)))
    ELSE IF ~e.endpoint.present THEN Throw(TypeError)
    ELSE Issue(put(EndpointPath(e.endpoint.endpointId, "power")
                        \o Query("access_token", e.token),
                   JSONstringify([state |-> IF e.name = "TurnOn" THEN "on" ELSE "off"])),
               "power")

handleChangeChannelEvent_index(e) ==
    IF ~e.endpoint.present THEN Throw(TypeError)
    ELSE Issue(put(EndpointPath(e.endpoint.endpointId, "channel")
                        \o Query("access_token", e.token),
                   JSONstringify(assign([metadata |-> ControlPayload.channelMetadata],
                                        ControlPayload.channel))),
               "channel")

handleSkipChannelsEvent_index(e) ==
    IF ~e.endpoint.present THEN Throw(TypeError)
    ELSE Issue(put(<<"/", "devices", "/">> \o Interpolate(e.endpoint.endpointId)
                        \o <<"/", "channel">>,
                   JSONstringify([channelCount |-> ControlPayload.channelCount])),
               "channel")

handleChannelControlEvent_index(e, t) ==
    CASE e.name = "ChangeChannel" -> handleChangeChannelEvent_index(e)
      [] e.name = "SkipChannels" -> handleSkipChannelsEvent_index(e)
      [] OTHER ->
            Complete(failWith(getErrorResponse(ERROR_TYPES.invalidDirective,
                        <<Text("Unexpected directiveName: "), Text(e.name)>>, t)))

\* handleInputControlEvent and handleStepSpeakerEvent of index.js
notYetImplemented(t) ==
    Complete(failWith(getErrorResponse(ERROR_TYPES.internalError,
                <<Text("Not yet implemented")>>, t)))

handler_index(e, t) ==
    IF isEventValid(e)
    THEN CASE e.namespace = SUPPORTED_INTERFACES.Alexa_Discovery ->
                handleDiscoveryEvent(e)
           [] e.namespace = SUPPORTED_INTERFACES.Alexa_PowerController ->
                handlePowerControlEvent_index(e, t)
           [] e.namespace = SUPPORTED_INTERFACES.Alexa_InputController ->
                notYetImplemented(t)
           [] e.namespace = SUPPORTED_INTERFACES.Alexa_ChannelController ->
                handleChannelControlEvent_index(e, t)
           [] e.namespace = SUPPORTED_INTERFACES.Alexa_StepSpeaker ->
                notYetImplemented(t)
           [] OTHER ->
                Complete(failWith(getErrorResponse(ERROR_TYPES.internalError,
                            <<Text("Unsupported namespace: "), Text(e.namespace)>>, t)))
    ELSE Complete(failWith(getErrorResponse(ERROR_TYPES.internalError,
                    <<Text("Invalid event: "), Json(e)>>, t)))

\* the promise chains of index.js on a response (httpPromise resolves with
\* the status and the raw text whatever the status)
onEnd_index(route, status, body, t) ==
    CASE route = "discovery" ->
            IF body.kind = "array"
            THEN Settled(succeedWith(
                    getDiscoveryAlexaResponse(alexaEndpointsOf("index.js", body.value), t)))
            ELSE Settled(succeedWith(getDiscoveryAlexaResponse(<<>>, t)))
      [] route = "power" ->
            IF status = 200
            THEN IF Parses(body)
                 THEN Settled(succeedWith(getPowerControlAlexaResponse(body, t)))
                 ELSE Settled(failWith(getPutErrorResponse(
                        IF body.kind = "text" THEN SyntaxError ELSE TypeError, t)))
            ELSE Settled(failWith(getHttpStatusErrorResponse(status, t)))
      [] route = "channel" ->
            \* context.success is not a function: the call throws into .catch
            IF status = 200
            THEN Settled(failWith(getPutErrorResponse(
                    IF body.kind = "text" THEN SyntaxError ELSE TypeError, t)))
            ELSE Settled(failWith(getHttpStatusErrorResponse(status, t)))

onError_index(route, error, t) ==
    IF route = "discovery"
    THEN Settled(succeedWith(getDiscoveryAlexaResponse(<<>>, t)))
    ELSE Settled(failWith(getPutErrorResponse(error, t)))

-----------------------------------------------------------------------------
(* src/code.js 438-889: versioned, PUT; httpPromise throws on a non-200    *)
(* status, the control routes call context.success                         *)

failInvalidDirective(directiveName, t) ==
    Complete(failWith(getErrorResponse(ERROR_TYPES.invalidDirective,
                <<Text("Unsupported directive: "), Text(directiveName)>>, t)))

handlePowerControlEvent_code438(e, t) ==
    IF e.name \notin {"TurnOn", "TurnOff"} THEN failInvalidDirective(e.name, t)
    ELSE IF ~e.endpoint.present THEN Throw(TypeError)
    ELSE Issue(put(EndpointPath(e.endpoint.endpointId, "power")
                        \o Query("access_token", e.token),
                   JSONstringify([state |-> IF e.name = "TurnOn" THEN "on" ELSE "off"])),
               "power")

handleSkipChannelsEvent_code438(e) ==
    IF ~e.endpoint.present THEN Throw(TypeError)
    ELSE Issue(put(EndpointPath(e.endpoint.endpointId, "channel"),
                   JSONstringify([channelCount |-> ControlPayload.channelCount])),
               "channel")

handleChannelControlEvent_code438(e, t) ==
    CASE e.name = "ChangeChannel" -> handleChangeChannelEvent_index(e)
      [] e.name = "SkipChannels" -> handleSkipChannelsEvent_code438(e)
      [] OTHER -> failInvalidDirective(e.name, t)

handleInputControlEvent_code438(e, t) ==
    IF ~e.endpoint.present THEN Throw(TypeError)
    ELSE IF e.name = "SelectInput"
    THEN Issue(put(EndpointPath(e.endpoint.endpointId, "input")
                        \o Query("access_token", e.token),
                   JSONstringify([name |-> ControlPayload.input])),
               "input")
    ELSE failInvalidDirective(e.name, t)

handleStepSpeakerEvent_code438(e, t) ==
    IF ~e.endpoint.present THEN Throw(TypeError)
    ELSE IF e.name \in {"SetMute", "AdjustVolume"}
    THEN Issue(put(EndpointPath(e.endpoint.endpointId, "volume")
                        \o Query("accessToken", e.token),
                   JSONstringify(IF e.name = "SetMute"
                                 THEN [mute |-> ControlPayload.mute]
                                 ELSE [volumeSteps |-> ControlPayload.volumeSteps])),
               "volume")
    ELSE failInvalidDirective(e.name, t)

handlePlaybackControlEvent_code438(e, t) ==
    IF ~e.endpoint.present THEN Throw(TypeError)
    ELSE IF isPlaybackDirectiveValid(e.name)
    THEN Issue(put(EndpointPath(e.endpoint.endpointId, "playback")
                        \o Query("accessToken", e.token),
                   JSONstringify([directive |-> e.name])),
               "playback")
    ELSE failInvalidDirective(e.name, t)

handler_code438(e, t) ==
    IF isEventValid(e)
    THEN CASE e.namespace = SUPPORTED_INTERFACES.Alexa_Discovery ->
                handleDiscoveryEvent(e)
           [] e.namespace = SUPPORTED_INTERFACES.Alexa_PowerController ->
                handlePowerControlEvent_code438(e, t)
           [] e.namespace = SUPPORTED_INTERFACES.Alexa_InputController ->
                handleInputControlEvent_code438(e, t)
           [] e.namespace = SUPPORTED_INTERFACES.Alexa_ChannelController ->
                handleChannelControlEvent_code438(e, t)
           [] e.namespace = SUPPORTED_INTERFACES.Alexa_StepSpeaker ->
                handleStepSpeakerEvent_code438(e, t)
           [] e.namespace = SUPPORTED_INTERFACES.Alexa_PlaybackController ->
                handlePlaybackControlEvent_code438(e, t)
           [] OTHER ->
                Complete(failWith(getErrorResponse(ERROR_TYPES.internalError,
                            <<Text("Unsupported namespace: "), Text(e.namespace)>>, t)))
    ELSE Complete(failWith(getErrorResponse(ERROR_TYPES.internalError,
                    <<Text("Invalid event: "), Json(e)>>, t)))

\* the promise chains of code.js:438 on a response: the .then of httpPromise
\* throws Error(`HTTP ${status}`) unless the status is 200
onEnd_code438(route, status, body, t) ==
    CASE route = "discovery" ->
            IF status = 200 /\ body.kind = "array"
            THEN Settled(succeedWith(
                    getDiscoveryAlexaResponse(alexaEndpointsOf("code.js:438", body.value), t)))
            ELSE Settled(succeedWith(getDiscoveryAlexaResponse(<<>>, t)))
      [] route = "power" ->
            IF status # 200
            THEN Settled(failWith(getPutErrorResponse(Error("HTTP status"), t)))
            ELSE IF Parses(body)
            THEN Settled(succeedWith(getPowerControlAlexaResponse(body, t)))
            ELSE Settled(failWith(getPutErrorResponse(
                    IF body.kind = "text" THEN SyntaxError ELSE TypeError, t)))
      [] OTHER ->
            \* channel, input, volume, playback: context.success is not a
            \* function, and the TypeError lands in .catch
            IF status # 200
            THEN Settled(failWith(getPutErrorResponse(Error("HTTP status"), t)))
            ELSE Settled(failWith(getPutErrorResponse(
                    IF body.kind = "text" /\ route \in {"channel", "input"}
                    THEN SyntaxError ELSE TypeError, t)))

onError_code438(route, error, t) == onError_index(route, error, t)

-----------------------------------------------------------------------------
(* src/unnamed/part_001 197-467: versioned, the first cut: only discovery  *)
(* and power are implemented, against the /devices paths                   *)

isDeviceSupported(device) ==
    /\ TruthyString(device.id)
    /\ Truthy(device.metrics.title)
    /\ device.deviceType \in SUPPORTED_ENDPOINT_TYPES("part_001:197")

getDeviceCapabilities(deviceType) ==
    ApplyRules(CapabilityRules("part_001:197"), deviceType, <<>>)

getDiscoveryResponse(endpoints, t) ==
    getResponse(SUPPORTED_INTERFACES.Alexa_Discovery, "Discover.Response",
                [endpoints |-> endpoints], t)

\* `${new Date()}`
DateString(t) == <<"Date">> \o NumberToString(t)

getPowerControlResponse(newState, t) ==
    StateReport(SUPPORTED_INTERFACES.Alexa_PowerController, "powerState",
                newState, DateString(t), "0", getResponse("Alexa", "Response", NotPassed, t))

handleDiscoveryEvent_part197(e) ==
    IF e.token = undefinedString THEN Throw(TypeError)
    ELSE Issue(get(<<"/", "devices">> \o Query("access_token", trim(e.token))),
               "discovery")

handlePowerControlEvent_part197(e, t) ==
    IF e.name \notin {"TurnOn", "TurnOff"}
    THEN Complete(failWith(getErrorResponse(ERROR_TYPES.invalidDirective,
                    <<Text("Unexpected directive name: "), Text(e.name)>>, t)))
    ELSE IF ~e.endpoint.present THEN Throw(TypeError)
    ELSE Issue(put(<<"/", "devices", "/">> \o Interpolate(e.endpoint.endpointId)
                        \o Query("access_token", e.token),
                   JSONstringify([level |-> IF e.name = "TurnOn" THEN "on" ELSE "off"])),
               "power")

handler_part197(e, t) ==
    IF isEventValid(e)
    THEN CASE e.namespace = SUPPORTED_INTERFACES.Alexa_Discovery ->
                handleDiscoveryEvent_part197(e)
           [] e.namespace = SUPPORTED_INTERFACES.Alexa_PowerController ->
                handlePowerControlEvent_part197(e, t)
           [] e.namespace \in {SUPPORTED_INTERFACES.Alexa_InputController,
                               SUPPORTED_INTERFACES.Alexa_ChannelController,
                               SUPPORTED_INTERFACES.Alexa_StepSpeaker} ->
                notYetImplemented(t)
           [] OTHER ->
                Complete(failWith(getErrorResponse(ERROR_TYPES.internalError,
                            <<Text("Unsupported namespace: "), Text(e.namespace)>>, t)))
    ELSE Complete(failWith(getErrorResponse(ERROR_TYPES.internalError,
                    <<Text("Unexpected event received: "), Json(e)>>, t)))

onEnd_part197(route, e, status, body, t) ==
    IF route = "discovery"
    THEN IF body.kind = "array"
         THEN LET devices == SelectSeq(body.value, isDeviceSupported)
              IN  Settled(succeedWith(getDiscoveryResponse(
                    [i \in DOMAIN devices |->
                        [endpointId |-> devices[i].id,
                         manufacturerName |-> "Unknown",
                         friendlyName |-> devices[i].metrics.title,
                         description |-> devices[i].metrics.title,
                         displayCategories |-> <<>>,
                         capabilities |-> getDeviceCapabilities(devices[i].deviceType)]],
                    t)))
         ELSE Settled(succeedWith(getDiscoveryResponse(<<>>, t)))
    ELSE IF status = 200
         THEN Settled(succeedWith(getPowerControlResponse(
                IF e.name = "TurnOn" THEN "ON" ELSE "OFF", t)))
         ELSE Settled(failWith(getErrorResponse(ERROR_TYPES.endpointUnreachable,
                <<Text("Unexpected HTTP statusCode "), Num(status)>>, t)))

onError_part197(route, error, t) ==
    IF route = "discovery"
    THEN Settled(succeedWith(getDiscoveryResponse(<<>>, t)))
    ELSE Settled(failWith(getErrorResponse(ERROR_TYPES.endpointUnreachable,
            <<Text("Failed PUT request: "), JsonError(error)>>, t)))

-----------------------------------------------------------------------------
(* The legacy revisions: events {header, payload}, payloadVersion '2'      *)

\* the envelope literal the legacy revisions build
LegacyEnvelope(name, namespace, payload, t) ==
    [header |-> [messageId |-> NumberToString(t), name |-> name,
                 namespace |-> namespace, payloadVersion |-> "2"],
     payload |-> payload]

\* the filter of the device list (code.js:80-85, code.js:286,
\* part_001:91-95)
isApplianceSupported(device) ==
    /\ TruthyString(device.id)
    /\ Truthy(device.metrics.title)
    /\ Truthy(device.metrics.level)
    /\ device.metrics.level \in {"on", "off"}

\* the appliance entry built for a supported device
Appliance(device) ==
    [applianceId |-> device.id, manufacturerName |-> "Unknown",
     modelName |-> "Unknown", version |-> "Unknown",
     friendlyName |-> device.metrics.title,
     friendlyDescription |-> device.metrics.title,
     isReachable |-> TRUE, actions |-> <<"turnOn", "turnOff">>]

discoveredAppliancesOf(devices) ==
    LET supported == SelectSeq(devices, isApplianceSupported)
    IN  [i \in DOMAIN supported |-> Appliance(supported[i])]

\* the name of the confirmation of a control request
ConfirmationName(e) ==
    IF e.name = "TurnOnRequest" THEN "TurnOnConfirmation" ELSE "TurnOffConfirmation"

\* event.header.name.match(/^TurnO(n|ff)Request$/)
IsTurnRequest(name) == name \in {"TurnOnRequest", "TurnOffRequest"}

\* the PUT of handleControl, the same in the three legacy revisions
ControlRequest(e) ==
    Request("PUT",
            <<"/", "devices", "/">> \o Interpolate(e.endpoint.endpointId)
                \o Query("access_token", trim(e.token)),
            Written(JSONstringify(
                [level |-> IF e.name = "TurnOnRequest" THEN "on" ELSE "off"])))

(* src/code.js 1-200: http callbacks *)

getDiscoveryResponse_code1(discoveredAppliances, t) ==
    LegacyEnvelope("DiscoverAppliancesResponse", LegacyDiscovery,
                   [discoveredAppliances |-> discoveredAppliances], t)

generateError(name, namespace, t) == LegacyEnvelope(name, namespace, EmptyObject, t)

handleDiscovery_code1(e) ==
    IF e.token = undefinedString THEN Throw(TypeError)
    ELSE Issue(get(<<"/", "devices">> \o Query("access_token", trim(e.token))),
               "discovery")

handleControl_code1(e, t) ==
    IF e.name = undefined THEN Throw(TypeError)
    ELSE IF ~IsTurnRequest(e.name)
    THEN Complete(failWith(generateError("UnsupportedOperationError", LegacyControl, t)))
    ELSE IF ~e.endpoint.present \/ e.token = undefinedString THEN Throw(TypeError)
    ELSE Issue(ControlRequest(e), "control")

\* context.fail('Something went wrong'): the argument is a string
SomethingWentWrong == [string |-> "Something went wrong"]

handler_code1(e, t) ==
    IF e.shape # "full" THEN Throw(TypeError)
    ELSE CASE e.namespace = LegacyDiscovery -> handleDiscovery_code1(e)
           [] e.namespace = LegacyControl -> handleControl_code1(e, t)
           [] OTHER -> Complete(failWith(SomethingWentWrong))

\* the 'end' listeners: JSON.parse and forEach run inside the listener, and
\* what they throw is caught by nobody
onEnd_code1(route, e, body, t) ==
    IF route = "discovery"
    THEN IF body.kind = "array"
         THEN Settled(succeedWith(
                getDiscoveryResponse_code1(discoveredAppliancesOf(body.value), t)))
         ELSE Uncaught(IF body.kind = "text" THEN SyntaxError ELSE TypeError)
    ELSE Settled(succeedWith(
            LegacyEnvelope(ConfirmationName(e), LegacyControl, EmptyObject, t)))

onError_code1(route, t) ==
    IF route = "discovery"
    THEN Settled(succeedWith(getDiscoveryResponse_code1(<<>>, t)))
    ELSE Settled(failWith(
            generateError("DependentServiceUnavailableError", LegacyControl, t)))

(* src/code.js 201-436: the original sample *)

generateControlError(name, t) == LegacyEnvelope(name, LegacyControl, EmptyObject, t)

\* handleDiscovery(accessToken, context): the GET carries no token
handleDiscovery_code201 == Issue(get(<<"/", "devices">>), "discovery")

handleControl_code201(e, t) ==
    IF e.name = undefined THEN Throw(TypeError)
    ELSE IF e.namespace # LegacyControl \/ ~IsTurnRequest(e.name)
    THEN Complete(failWith(generateControlError("TurnOnOffRequest", t)))
    ELSE IF ~e.endpoint.present \/ e.token = undefinedString THEN Throw(TypeError)
    ELSE Issue(ControlRequest(e), "control")

handler_code201(e, t) ==
    IF e.shape # "full" THEN Throw(TypeError)
    ELSE CASE e.namespace = LegacyDiscovery -> handleDiscovery_code201
           [] e.namespace = LegacyControl -> handleControl_code201(e, t)
           [] OTHER -> Complete(failWith(SomethingWentWrong))

onEnd_code201(route, e, body, t) ==
    IF route = "discovery"
    THEN IF body.kind = "array"
         THEN Settled(succeedWith(
                LegacyEnvelope("DiscoverAppliancesResponse", LegacyDiscovery,
                    [discoveredAppliances |-> discoveredAppliancesOf(body.value)], t)))
         ELSE Uncaught(IF body.kind = "text" THEN SyntaxError ELSE TypeError)
    ELSE Settled(succeedWith(
            LegacyEnvelope(ConfirmationName(e), LegacyControl, EmptyObject, t)))

\* serverError of handleDiscovery and of handleControl
onError_code201(route, t) ==
    IF route = "discovery"
    THEN Settled(failWith(generateControlError("DiscoveryRequest", t)))
    ELSE Settled(failWith(generateControlError("UnsupportedOperationError", t)))

(* src/unnamed/part_001 1-196: promises *)

getResponse_part1(name, namespace, payload, t) ==
    LegacyEnvelope(name, namespace,
                   IF payload = NotPassed THEN EmptyObject ELSE payload, t)

\* the appliance list itself is passed as the payload
getDiscoveryResponse_part1(discoveredAppliances, t) ==
    [header |-> [messageId |-> NumberToString(t),
                 name |-> "DiscoverAppliancesResponse",
                 namespace |-> LegacyDiscovery, payloadVersion |-> "2"],
     payload |-> discoveredAppliances]

handleControl_part1(e, t) ==
    IF e.name = undefined THEN Throw(TypeError)
    ELSE IF ~IsTurnRequest(e.name)
    THEN Complete(failWith(
            getResponse_part1("UnsupportedOperationError", LegacyControl, NotPassed, t)))
    ELSE IF ~e.endpoint.present \/ e.token = undefinedString THEN Throw(TypeError)
    ELSE Issue(ControlRequest(e), "control")

handler_part1(e, t) ==
    IF e.shape # "full" THEN Throw(TypeError)
    ELSE CASE e.namespace = LegacyDiscovery -> handleDiscovery_code1(e)
           [] e.namespace = LegacyControl -> handleControl_part1(e, t)
           [] OTHER ->
                Complete(failWith(
                    getResponse_part1("UnsupportedOperationError", LegacyControl,
                                      NotPassed, t)))

DependentServiceUnavailable(t) ==
    getResponse_part1("DependentServiceUnavailableError", "Alexa.ContextHome.Control",
                      [dependentServiceName |-> "z-way-relay"], t)

onEnd_part1(route, e, status, body, t) ==
    IF route = "discovery"
    THEN IF body.kind = "array"
         THEN Settled(succeedWith(
                getDiscoveryResponse_part1(discoveredAppliancesOf(body.value), t)))
         ELSE Settled(succeedWith(getDiscoveryResponse_part1(<<>>, t)))
    ELSE IF status = 200
         THEN Settled(succeedWith(
                getResponse_part1(ConfirmationName(e), LegacyControl, NotPassed, t)))
         ELSE Settled(failWith(DependentServiceUnavailable(t)))

onError_part1(route, t) ==
    IF route = "discovery"
    THEN Settled(succeedWith(getDiscoveryResponse_part1(<<>>, t)))
    ELSE Settled(failWith(DependentServiceUnavailable(t)))

-----------------------------------------------------------------------------
(* The deployed revision *)

\* exports.handler of revision v on event e at clock value t
Run(v, e, t) ==
    CASE v = "part_000" -> handler(e, t)
      [] v = "index.js" -> handler_index(e, t)
      [] v = "code.js:438" -> handler_code438(e, t)
      [] v = "part_001:197" -> handler_part197(e, t)
      [] v = "code.js:1" -> handler_code1(e, t)
      [] v = "code.js:201" -> handler_code201(e, t)
      [] v = "part_001:1" -> handler_part1(e, t)

\* the callbacks of revision v when the response has ended
End(v, route, e, status, body, t) ==
    CASE v = "part_000" -> onEnd(route, status, body, t)
      [] v = "index.js" -> onEnd_index(route, status, body, t)
      [] v = "code.js:438" -> onEnd_code438(route, status, body, t)
      [] v = "part_001:197" -> onEnd_part197(route, e, status, body, t)
      [] v = "code.js:1" -> onEnd_code1(route, e, body, t)
      [] v = "code.js:201" -> onEnd_code201(route, e, body, t)
      [] v = "part_001:1" -> onEnd_part1(route, e, status, body, t)

\* the callbacks of revision v when the request has emitted 'error'
Err(v, route, error, t) ==
    CASE v = "part_000" -> onError(route, error, t)
      [] v = "index.js" -> onError_index(route, error, t)
      [] v = "code.js:438" -> onError_code438(route, error, t)
      [] v = "part_001:197" -> onError_part197(route, error, t)
      [] v = "code.js:1" -> onError_code1(route, t)
      [] v = "code.js:201" -> onError_code201(route, t)
      [] v = "part_001:1" -> onError_part1(route, t)

-----------------------------------------------------------------------------
(* The invocation *)

\* what the transport delivers: nothing yet, a response that ended, an error
NoResponse == [kind |-> "none"]
Ended(status, body) == [kind |-> "end", status |-> status, body |-> body]
Failed(error) == [kind |-> "error", error |-> error]

\* the resolver is not being called
NoProbe == [type |-> undefined, ret |-> <<>>, next |-> 0]

\* the host runs no second invocation
NoOther == [pc |-> "none"]

Init ==
    /\ variant \in Variants
    /\ event \in EventsOf(variant)
    /\ pc = "start"
    /\ pending = "none"
    /\ calls = <<>>
    /\ response = NoResponse
    /\ completions = <<>>
    /\ thrown = "none"
    /\ now = 0
    /\ probe = NoProbe
    /\ other = NoOther

\* the platform invokes exports.handler(event, context)
Invoke ==
    /\ pc = "start"
    /\ \E t \in now..MaxClock :
        LET r == Run(variant, event, t)
        IN  /\ calls' = r.calls
            /\ completions' = r.completions
            /\ thrown' = r.thrown
            /\ pending' = r.pending
            /\ pc' = IF r.pending = "none" THEN "done" ELSE "waiting"
            /\ now' = t
    /\ UNCHANGED <<variant, event, response, probe, other>>

\* the response of the transport call has ended
ResponseEnd ==
    /\ pc = "waiting"
    /\ \E status \in Statuses, body \in BodiesFor(pending), t \in now..MaxClock :
        LET r == End(variant, pending, event, status, body, t)
        IN  /\ response' = Ended(status, body)
            /\ completions' = completions \o r.completions
            /\ thrown' = r.thrown
            /\ now' = t
    /\ pc' = "done"
    /\ pending' = "none"
    /\ UNCHANGED <<variant, event, calls, probe, other>>

\* the request of the transport call has emitted 'error'
RequestError ==
    /\ pc = "waiting"
    /\ \E error \in TransportErrors, t \in now..MaxClock :
        LET r == Err(variant, pending, error, t)
        IN  /\ response' = Failed(error)
            /\ completions' = completions \o r.completions
            /\ thrown' = r.thrown
            /\ now' = t
    /\ pc' = "done"
    /\ pending' = "none"
    /\ UNCHANGED <<variant, event, calls, probe, other>>

Next == Invoke \/ ResponseEnd \/ RequestError

Spec == Init /\ [][Next]_vars

-----------------------------------------------------------------------------
(* The capability resolver called on its own, one if statement per step *)

\* device-type tags: those of the revisions, and tags none of them knows
DeviceTypes ==
    {"switchBinary", "zwitch", "roku", "television", "tv", "thermostat", "", undefined}

InitResolver ==
    /\ variant \in Versioned
    /\ probe \in {[type |-> ty, ret |-> <<>>, next |-> 1] : ty \in DeviceTypes}
    /\ event = BrokenEvent("null")
    /\ pc = "done"
    /\ pending = "none"
    /\ calls = <<>>
    /\ response = NoResponse
    /\ completions = <<>>
    /\ thrown = "none"
    /\ now = 0
    /\ other = NoOther

\* the next if statement of getEndpointCapabilities / getDeviceCapabilities
ResolveStep ==
    /\ probe.next \in DOMAIN CapabilityRules(variant)
    /\ probe' = [type |-> probe.type,
                 ret |-> ApplyRule(CapabilityRules(variant)[probe.next],
                                   probe.type, probe.ret),
                 next |-> probe.next + 1]
    /\ UNCHANGED <<variant, event, pc, pending, calls, response, completions,
                   thrown, now, other>>

\* the resolver has returned
Resolved == probe.next = Len(CapabilityRules(variant)) + 1

SpecResolver == InitResolver /\ [][ResolveStep]_vars

-----------------------------------------------------------------------------
(* part_000: an endpoint id on its way through discovery and back in a    *)
(* control directive                                                       *)

\* the length of the longest backend id
MaxId == 4

\* backend endpoint ids: the strings of letters, dots and hashes
BackendIds == UNION {[1..n -> {"a", ".", "#"}] : n \in 1..MaxId}

InitCodec ==
    /\ variant = "part_000"
    /\ probe \in {[type |-> id, ret |-> <<>>, next |-> 1] : id \in BackendIds}
    /\ event = BrokenEvent("null")
    /\ pc = "done"
    /\ pending = "none"
    /\ calls = <<>>
    /\ response = NoResponse
    /\ completions = <<>>
    /\ thrown = "none"
    /\ now = 0
    /\ other = NoOther

\* getDiscoveryReply lists the device of this id: the endpointId it emits
EmitStep ==
    /\ probe.next = 1
    /\ LET reply == getDiscoveryReply(
                        <<Descriptor(probe.type, "Plug", "zwitch", "Plug", "off")>>, now)
       IN  probe' = [probe EXCEPT !.ret = reply.event.payload.endpoints[1].endpointId,
                                  !.next = 2]
    /\ UNCHANGED <<variant, event, pc, pending, calls, response, completions,
                   thrown, now, other>>

\* a control directive comes back with the emitted endpointId: the id
\* getEndpointId reads for the transport call
ReadStep ==
    /\ probe.next = 2
    /\ probe' = [probe EXCEPT
                    !.ret = getEndpointId(
                        FullEvent(SUPPORTED_INTERFACES.Alexa_PowerController, "TurnOn",
                                  <<"t">>, [present |-> TRUE, endpointId |-> probe.ret])),
                    !.next = 3]
    /\ UNCHANGED <<variant, event, pc, pending, calls, response, completions,
                   thrown, now, other>>

NextCodec == EmitStep \/ ReadStep

SpecCodec == InitCodec /\ [][NextCodec]_vars

-----------------------------------------------------------------------------
(* What the claims speak of *)

\* the invocation has run its synchronous part
Invoked == pc # "start"
\* nothing of the invocation is left to run
Done == pc = "done"

\* the envelope is missing a level, or its namespace or name is missing or empty
Malformed(e) == e.shape # "full" \/ ~Truthy(e.namespace) \/ ~Truthy(e.name)

\* a Discovery directive of the protocol of revision v, carrying a token
IsDiscoverDirective(v, e) ==
    /\ e.shape = "full"
    /\ e.token # undefinedString
    /\ IF v \in Versioned
       THEN e.namespace = "Alexa.Discovery" /\ e.name = "Discover"
       ELSE e.namespace = "Alexa.ConnectedHome.Discovery"
                /\ e.name = "DiscoverAppliancesRequest"

\* arg is an Alexa/ErrorResponse envelope whose type is one of types
IsErrorEnvelope(arg, types) ==
    /\ "event" \in DOMAIN arg
    /\ arg.event.header.namespace = "Alexa"
    /\ arg.event.header.name = "ErrorResponse"
    /\ arg.event.payload.type \in types

\* the invocation completed once, through context.fail, with such an envelope
FailedWith(types) ==
    /\ Len(completions) = 1
    /\ completions[1].callback = "fail"
    /\ IsErrorEnvelope(completions[1].arg, types)
    /\ thrown = "none"

\* arg is the discovery response of revision v
IsDiscoveryResponse(v, arg) ==
    IF v \in Versioned
    THEN /\ "event" \in DOMAIN arg
         /\ arg.event.header.namespace = "Alexa.Discovery"
         /\ arg.event.header.name = "Discover.Response"
    ELSE /\ "header" \in DOMAIN arg
         /\ arg.header.namespace = "Alexa.ConnectedHome.Discovery"
         /\ arg.header.name = "DiscoverAppliancesResponse"

\* the endpoint (appliance) list of a discovery response
EndpointList(v, arg) ==
    CASE v \in Versioned -> arg.event.payload.endpoints
      [] v = "part_001:1" -> arg.payload
      [] OTHER -> arg.payload.discoveredAppliances

\* the invocation completed once, through context.succeed, with a discovery
\* response
SucceededDiscovery ==
    /\ Len(completions) = 1
    /\ completions[1].callback = "succeed"
    /\ IsDiscoveryResponse(variant, completions[1].arg)
    /\ thrown = "none"

\* the GET failed, or its body is no JSON
TransportFailedOrNoJSON ==
    \/ response.kind = "error"
    \/ response.kind = "end" /\ response.body.kind = "text"

-----------------------------------------------------------------------------
(* C1 *)

\* C1: discovery always succeeds: for every Discovery directive that carries
\* an access token, in every revision, the invocation ends with
\* context.succeed of a discovery response, never with context.fail or
\* without a completion; after a transport error or a body that is no JSON
\* the endpoint list is empty.  (Stated as claimed; part_000 and the
\* callback revisions of code.js violate it.)
C1_DiscoveryAlwaysSucceeds ==
    IsDiscoverDirective(variant, event) =>
        /\ thrown = "none"
        /\ \A i \in DOMAIN completions : completions[i].callback = "succeed"
        /\ Done =>
            /\ SucceededDiscovery
            /\ TransportFailedOrNoJSON =>
                    EndpointList(variant, completions[1].arg) = <<>>

-----------------------------------------------------------------------------
(* C2 *)

\* C2: every malformed inbound envelope (null event, missing directive or
\* header, missing or empty namespace or name) completes, in every
\* revision, with context.fail of an INTERNAL_ERROR envelope, and no
\* transport call is issued.  (Stated as claimed; the versioned revisions
\* satisfy it, the legacy revisions do not validate the event.)
C2_MalformedFailsInternalError ==
    (Malformed(event) /\ Invoked) =>
        /\ calls = <<>>
        /\ Done
        /\ FailedWith({"INTERNAL_ERROR"})

-----------------------------------------------------------------------------
(* C3 *)

\* the envelope is well formed
WellFormed(e) == ~Malformed(e)

\* C3: for every control namespace and every directive name outside the
\* supported set of that namespace, the handler completes with context.fail
\* of an INVALID_DIRECTIVE envelope and issues no transport call, whatever
\* else the directive holds (the endpoint field may be absent).  (Stated as
\* claimed; the revisions violate it.)
C3_UnsupportedNameIsInvalidDirective ==
    (/\ variant \in Versioned
     /\ WellFormed(event)
     /\ event.namespace \in ControlNamespaces
     /\ event.name \notin SupportedNames(event.namespace)
     /\ Invoked) =>
        /\ calls = <<>>
        /\ Done
        /\ FailedWith({"INVALID_DIRECTIVE"})

-----------------------------------------------------------------------------
(* C4 *)

\* the case labels of the switch of exports.handler
RoutedNamespaces(v) ==
    CASE v \in {"part_000", "code.js:438"} ->
            {"Alexa.Discovery", "Alexa.PowerController", "Alexa.InputController",
             "Alexa.ChannelController", "Alexa.StepSpeaker", "Alexa.PlaybackController"}
      [] v \in {"index.js", "part_001:197"} ->
            {"Alexa.Discovery", "Alexa.PowerController", "Alexa.InputController",
             "Alexa.ChannelController", "Alexa.StepSpeaker"}
      [] OTHER -> {"Alexa.ConnectedHome.Discovery", "Alexa.ConnectedHome.Control"}

Unrouted == WellFormed(event) /\ event.namespace \notin RoutedNamespaces(variant)

-----------------------------------------------------------------------------
(* C5 *)

\* C5: in the Discovery namespace only the name 'Discover' reaches the
\* discovery handler: any other name of a well-formed directive yields an
\* error envelope, and no GET is issued.  (Stated as claimed; no revision
\* looks at the name of a Discovery directive.)
C5_OnlyDiscoverIsRouted ==
    (/\ variant \in Versioned
     /\ WellFormed(event)
     /\ event.namespace = "Alexa.Discovery"
     /\ event.name # "Discover"
     /\ event.token # undefinedString
     /\ Invoked) =>
        /\ calls = <<>>
        /\ Done
        /\ FailedWith({"INVALID_DIRECTIVE", "INTERNAL_ERROR"})

-----------------------------------------------------------------------------
(* C6 *)

\* the interfaces of the capability list the resolver has built
Interfaces(capabilities) == {capabilities[i].interface : i \in DOMAIN capabilities}

\* the rule table of the specification
RuleTable(type) ==
    CASE type = "switchBinary" -> {"Alexa.PowerController"}
      [] type = "television" ->
            {"Alexa.PowerController", "Alexa.ChannelController",
             "Alexa.PlaybackController", "Alexa.StepSpeaker", "Alexa.InputController"}
      [] type = "roku" -> {"Alexa.ChannelController", "Alexa.PlaybackController"}
      [] OTHER -> {}

\* the rule table of each versioned revision
RuleTableOf(v, type) ==
    CASE v = "index.js" -> RuleTable(type)
      [] v = "part_001:197" ->
            IF type = "television"
            THEN {"Alexa.PowerController", "Alexa.ChannelController",
                  "Alexa.PlaybackController", "Alexa.StepSpeaker"}
            ELSE RuleTable(type)
      [] v = "code.js:438" ->
            IF type = "television"
            THEN {"Alexa.PowerController", "Alexa.ChannelController",
                  "Alexa.StepSpeaker", "Alexa.InputController"}
            ELSE RuleTable(type)
      [] v = "part_000" ->
            CASE type = "zwitch" -> {"Alexa.PowerController"}
              [] type = "television" ->
                    {"Alexa.PowerController", "Alexa.ChannelController",
                     "Alexa.StepSpeaker", "Alexa.InputController"}
              [] type = "roku" ->
                    {"Alexa.ChannelController", "Alexa.PlaybackController"}
              [] OTHER -> {}

-----------------------------------------------------------------------------
(* C7 *)

\* the device-type tags a revision recognizes
RecognizedTypes(v) ==
    IF v = "part_000" THEN {"zwitch", "roku", "television"}
    ELSE {"switchBinary", "roku", "television"}

\* s with the first from replaced by to
FirstReplaced(s, from, to) ==
    IF \E i \in DOMAIN s : s[i] = from
    THEN LET first == CHOOSE i \in DOMAIN s :
                        s[i] = from /\ \A j \in 1..(i - 1) : s[j] # from
         IN  [i \in DOMAIN s |-> IF i = first THEN to ELSE s[i]]
    ELSE s

\* the endpointId under which revision v lists the descriptor with this id
ListedId(v, id) == IF v = "part_000" THEN FirstReplaced(id, ".", "#") ELSE id

\* a versioned revision has answered a Discovery directive whose GET ended
\* with a device list
DiscoveryAnswered ==
    /\ variant \in Versioned
    /\ WellFormed(event)
    /\ event.namespace = "Alexa.Discovery"
    /\ Done
    /\ response.kind = "end"
    /\ response.body.kind = "array"
    /\ SucceededDiscovery

-----------------------------------------------------------------------------
(* C8 *)

\* the revisions that read the descriptor fields id, name, description,
\* manufacturer and type
ReadsEndpoints == {"index.js", "code.js:438", "part_000"}

\* the GET of a Discovery directive has ended with a list of one descriptor
\* of this type whose id, name, description and manufacturer are not empty
OneDescriptor(type) ==
    /\ variant \in ReadsEndpoints
    /\ WellFormed(event)
    /\ event.namespace = "Alexa.Discovery"
    /\ Done
    /\ response.kind = "end"
    /\ response.body.kind = "array"
    /\ Len(response.body.value) = 1
    /\ response.body.value[1].type = type
    /\ response.body.value[1].id # <<>>
    /\ response.body.value[1].name \notin {undefined, ""}
    /\ response.body.value[1].description \notin {undefined, ""}
    /\ response.body.value[1].manufacturer \notin {undefined, ""}

\* the response lists exactly one endpoint, with this id and with
\* Alexa.PowerController among its capabilities
ListsOne(id) ==
    /\ SucceededDiscovery
    /\ Len(EndpointList(variant, completions[1].arg)) = 1
    /\ EndpointList(variant, completions[1].arg)[1].endpointId = id
    /\ "Alexa.PowerController" \in
            Interfaces(EndpointList(variant, completions[1].arg)[1].capabilities)

\* the response lists no endpoint
ListsNone ==
    /\ SucceededDiscovery
    /\ EndpointList(variant, completions[1].arg) = <<>>

-----------------------------------------------------------------------------
(* C9 *)

\* a power directive (TurnOn / TurnOff, legacy TurnOnRequest /
\* TurnOffRequest) for an endpoint has been handled
PowerDirective ==
    /\ WellFormed(event)
    /\ event.endpoint.present
    /\ Invoked
    /\ IF variant \in Versioned
       THEN event.namespace = "Alexa.PowerController"
                /\ event.name \in {"TurnOn", "TurnOff"}
       ELSE event.namespace = "Alexa.ConnectedHome.Control"
                /\ event.name \in {"TurnOnRequest", "TurnOffRequest"}
                /\ event.token # undefinedString

\* 'on' for the directives that turn on, 'off' for those that turn off
Wanted == IF event.name \in {"TurnOn", "TurnOnRequest"} THEN "on" ELSE "off"

\* exactly one call was issued, a PUT or a POST whose body is the JSON text
\* of this object
OneWrite(object) ==
    /\ Len(calls) = 1
    /\ calls[1].method \in {"PUT", "POST"}
    /\ calls[1].body.written
    /\ calls[1].body.json = object

\* the path of the call contains /id/power, resp. /devices/id
PathOfPower(id) == Contains(calls[1].path, <<"/">> \o id \o <<"/", "power">>)
PathOfDevice(id) == Contains(calls[1].path, <<"/", "devices", "/">> \o id)

\* C9 as claimed: for a TurnOn or TurnOff directive for endpoint e exactly
\* one PUT/POST is issued, to a path containing /e/power (versioned) or
\* /devices/e (legacy), and its JSON body encodes state (or level) 'on' for
\* TurnOn and 'off' for TurnOff.
C9_PowerCallNamesTheEndpoint ==
    PowerDirective =>
        /\ OneWrite([state |-> Wanted]) \/ OneWrite([level |-> Wanted])
        /\ PathOfPower(event.endpoint.endpointId)
                \/ PathOfDevice(event.endpoint.endpointId)

\* C9 as amended: for a TurnOn or TurnOff directive for endpoint e exactly
\* one PUT/POST is issued.  index.js and code.js 438-889: a PUT to a path
\* containing /e/power with body {state}.  part_000: a POST with body
\* {state} to a path containing /d/power, where d is e with its first '#'
\* replaced by '.'.  part_001 197-467 and the legacy revisions (directives
\* TurnOnRequest / TurnOffRequest carrying an access token): a PUT to a path
\* containing /devices/e with body {level}.  The value is 'on' for TurnOn
\* and 'off' for TurnOff.
C9_PowerCallNamesTheDecodedEndpoint ==
    PowerDirective =>
        CASE variant \in {"index.js", "code.js:438"} ->
                /\ OneWrite([state |-> Wanted])
                /\ calls[1].method = "PUT"
                /\ PathOfPower(event.endpoint.endpointId)
          [] variant = "part_000" ->
                /\ OneWrite([state |-> Wanted])
                /\ calls[1].method = "POST"
                /\ PathOfPower(FirstReplaced(event.endpoint.endpointId, "#", "."))
          [] OTHER ->
                /\ OneWrite([level |-> Wanted])
                /\ calls[1].method = "PUT"
                /\ PathOfDevice(event.endpoint.endpointId)

\* part_000 has posted the TurnOff for endpoint a#b to /endpoints/a.b/power
C9_Witness ==
    /\ PowerDirective
    /\ variant = "part_000"
    /\ event.name = "TurnOff"
    /\ event.endpoint.endpointId = <<"a", "#", "b">>
    /\ OneWrite([state |-> "off"])
    /\ PathOfPower(<<"a", ".", "b">>)
    /\ Done

-----------------------------------------------------------------------------
(* C10 *)

\* arg is an Alexa/Response event whose context.properties holds one
\* Alexa.PowerController 'powerState' property with one of these values
IsPowerStateReport(arg, values) ==
    /\ "event" \in DOMAIN arg
    /\ arg.event.header.namespace = "Alexa"
    /\ arg.event.header.name = "Response"
    /\ "context" \in DOMAIN arg
    /\ Len(arg.context.properties) = 1
    /\ arg.context.properties[1].namespace = "Alexa.PowerController"
    /\ arg.context.properties[1].name = "powerState"
    /\ arg.context.properties[1].value \in values

\* C10: for a TurnOn (resp. TurnOff) directive whose transport call returns
\* status 200 with any body, the invocation ends with context.succeed of an
\* Alexa/Response event whose context.properties holds one
\* Alexa.PowerController 'powerState' property whose value reflects 'on'
\* (resp. 'off').  (Stated as claimed; only part_001 197-467 satisfies it.)
C10_PowerSucceedsOnAny200 ==
    (/\ variant \in Versioned
     /\ PowerDirective
     /\ Done
     /\ response.kind = "end"
     /\ response.status = 200) =>
        /\ thrown = "none"
        /\ Len(completions) = 1
        /\ completions[1].callback = "succeed"
        /\ IsPowerStateReport(completions[1].arg,
                IF event.name = "TurnOn" THEN {"on", "ON"} ELSE {"off", "OFF"})

-----------------------------------------------------------------------------
(* C11 *)

\* a control directive with a supported name, for an endpoint, has been
\* handled by a versioned revision
SupportedControlDirective ==
    /\ variant \in Versioned
    /\ WellFormed(event)
    /\ event.namespace \in ControlNamespaces
    /\ event.name \in SupportedNames(event.namespace)
    /\ event.endpoint.present
    /\ Invoked

\* C11: for every control directive with a supported name (power, channel,
\* input, step-speaker, playback), when the transport call fails with a
\* transport error the invocation ends with context.fail of an
\* Alexa/ErrorResponse envelope of type ENDPOINT_UNREACHABLE.  (Stated as
\* claimed; the input handler of part_000 violates it.)
C11_TransportErrorIsEndpointUnreachable ==
    (SupportedControlDirective /\ Done /\ response.kind = "error") =>
        FailedWith({"ENDPOINT_UNREACHABLE"})

-----------------------------------------------------------------------------
(* Two invocations that the host runs at the same time: both run the       *)
(* deployed revision and read the same clock; their transport callbacks    *)
(* interleave in any order                                                  *)

\* the events of the two invocations: one the handler answers at once, and
\* the two power directives
PairEvents(v) ==
    IF v \in Versioned
    THEN {BrokenEvent("noDirective")}
         \cup {FullEvent(SUPPORTED_INTERFACES.Alexa_PowerController, name, <<"t">>,
                         [present |-> TRUE, endpointId |-> <<"e1">>]) :
                    name \in {"TurnOn", "TurnOff"}}
    ELSE {FullEvent("Alexa.ConnectedHome.Query", "TurnOnRequest", <<"t">>, NoEndpoint)}
         \cup {FullEvent(LegacyControl, name, <<"t">>,
                         [present |-> TRUE, endpointId |-> <<"e1">>]) :
                    name \in {"TurnOnRequest", "TurnOffRequest"}}

\* a plausible slip: the callbacks read a module-level variable that the
\* latest invocation has written
closure_moduleLevel(own, others) == others

\* what a callback reads of `event` and `context`: the parameters of the
\* call of exports.handler that created it
closure(own, others) == own

InitPair ==
    /\ variant \in Variants
    /\ event \in PairEvents(variant)
    /\ pc = "start"
    /\ pending = "none"
    /\ calls = <<>>
    /\ response = NoResponse
    /\ completions = <<>>
    /\ thrown = "none"
    /\ now = 0
    /\ probe = NoProbe
    /\ \E e \in PairEvents(variant) :
            other = [event |-> e, pc |-> "start", pending |-> "none", calls |-> <<>>,
                     response |-> NoResponse, completions |-> <<>>, thrown |-> "none"]

\* the platform invokes exports.handler a second time
OtherInvoke ==
    /\ other.pc = "start"
    /\ \E t \in now..MaxClock :
        LET r == Run(variant, other.event, t)
        IN  /\ other' = [other EXCEPT !.calls = r.calls,
                                      !.completions = r.completions,
                                      !.thrown = r.thrown,
                                      !.pending = r.pending,
                                      !.pc = IF r.pending = "none" THEN "done"
                                             ELSE "waiting"]
            /\ now' = t
    /\ UNCHANGED <<variant, event, pc, pending, calls, response, completions,
                   thrown, probe>>

\* the callbacks of the second invocation deliver d, and leave x uncaught
OtherDelivers(d, x, delivered) ==
    /\ other' = [other EXCEPT !.response = delivered,
                              !.completions = IF closure(TRUE, FALSE) THEN @ \o d ELSE @,
                              !.thrown = x,
                              !.pc = "done",
                              !.pending = "none"]
    /\ completions' = IF closure(TRUE, FALSE) THEN completions ELSE completions \o d

\* the response of the transport call of the second invocation has ended
OtherResponseEnd ==
    /\ other.pc = "waiting"
    /\ \E status \in Statuses, body \in BodiesFor(other.pending), t \in now..MaxClock :
        LET r == End(variant, other.pending, closure(other.event, event),
                     status, body, t)
        IN  /\ OtherDelivers(r.completions, r.thrown, Ended(status, body))
            /\ now' = t
    /\ UNCHANGED <<variant, event, pc, pending, calls, response, thrown, probe>>

\* the request of the transport call of the second invocation has emitted
\* 'error'
OtherRequestError ==
    /\ other.pc = "waiting"
    /\ \E error \in TransportErrors, t \in now..MaxClock :
        LET r == Err(variant, other.pending, error, t)
        IN  /\ OtherDelivers(r.completions, r.thrown, Failed(error))
            /\ now' = t
    /\ UNCHANGED <<variant, event, pc, pending, calls, response, thrown, probe>>

NextPair ==
    \/ Invoke \/ ResponseEnd \/ RequestError
    \/ OtherInvoke \/ OtherResponseEnd \/ OtherRequestError

SpecPair == InitPair /\ [][NextPair]_vars

-----------------------------------------------------------------------------
(* C12 *)

\* arg is an envelope
IsEnvelope(arg) == "event" \in DOMAIN arg \/ "header" \in DOMAIN arg

\* the messageId of an envelope
MessageIdOf(arg) ==
    IF "event" \in DOMAIN arg THEN arg.event.header.messageId
    ELSE arg.header.messageId

\* C12: any two outbound envelopes, of one invocation or of two, and built
\* within the same clock millisecond or not, carry different, non-empty
\* messageId strings.  (Stated as claimed; every revision takes the
\* messageId from the clock.)
C12_MessageIdsDiffer ==
    LET out == completions \o other.completions
    IN  \A i, j \in DOMAIN out :
            (IsEnvelope(out[i].arg) /\ IsEnvelope(out[j].arg)) =>
                /\ MessageIdOf(out[i].arg) # <<>>
                /\ i # j => MessageIdOf(out[i].arg) # MessageIdOf(out[j].arg)

-----------------------------------------------------------------------------
(* C13 *)

\* the header of an envelope
HeaderOf(arg) == IF "event" \in DOMAIN arg THEN arg.event.header ELSE arg.header

\* C13: every outbound envelope, success or error and on every path,
\* carries the fixed payloadVersion of its protocol revision: '3' in the
\* versioned revisions and '2' in the legacy revisions.  (The bare string
\* that the legacy code.js hands to context.fail is no envelope.)
C13_PayloadVersionIsFixed ==
    \A i \in DOMAIN completions :
        IsEnvelope(completions[i].arg) =>
            HeaderOf(completions[i].arg).payloadVersion
                = IF variant \in Versioned THEN "3" ELSE "2"

\* a versioned revision has failed a power directive on a transport error,
\* with an envelope of payloadVersion '3'
C13_Witness ==
    /\ variant = "index.js"
    /\ Done
    /\ response.kind = "error"
    /\ Len(completions) = 1
    /\ completions[1].callback = "fail"
    /\ IsEnvelope(completions[1].arg)
    /\ HeaderOf(completions[1].arg).payloadVersion = "3"

-----------------------------------------------------------------------------
(* C14 *)

\* C14: an invocation issues at most one transport call: no handler issues a
\* second call, and when the call has failed or has been answered with a
\* status other than 200 the invocation is over with that one call (no
\* retry).
C14_AtMostOneTransportCall ==
    /\ Len(calls) <= 1
    /\ pc = "waiting" => Len(calls) = 1
    /\ (Done /\ response.kind # "none") => Len(calls) = 1

\* the one call of an invocation has been answered with status 404, and the
\* invocation is over
C14_Witness ==
    /\ Done
    /\ response.kind = "end"
    /\ response.status = 404
    /\ Len(calls) = 1

-----------------------------------------------------------------------------
(* C15 *)

\* what the invocation of event e produces when it runs alone, is invoked at
\* clock reading t0, and the transport delivers resp to its call at t1
Alone(e, resp, t0, t1) ==
    LET r == Run(variant, e, t0)
        o == IF r.pending = "none" THEN Outcome(<<>>, r.thrown)
             ELSE IF resp.kind = "end"
             THEN End(variant, r.pending, e, resp.status, resp.body, t1)
             ELSE Err(variant, r.pending, resp.error, t1)
    IN  [completions |-> r.completions \o o.completions, thrown |-> o.thrown]

\* the clock readings of a run
Clock == 0..MaxClock

-----------------------------------------------------------------------------
(* C16 *)

\* the call of the invocation is issued and the transport has delivered
\* neither the end of its response nor an error
Undelivered == calls # <<>> /\ response.kind = "none"

\* C16: on every route that issues a transport call, neither context.succeed
\* nor context.fail is invoked before the transport has delivered the end of
\* the response or an error; as long as the transport delivers neither, the
\* invocation stays waiting and never completes (there is no timeout).
C16_NoCompletionBeforeDelivery ==
    /\ Undelivered => (completions = <<>> /\ thrown = "none" /\ pc = "waiting")
    /\ (calls # <<>> /\ pc = "done") => response.kind # "none"

\* an invocation has issued its call and waits, nothing completed; and the
\* reachable state after delivery is the one where it completed
C16_Witness ==
    /\ Undelivered
    /\ pc = "waiting"
    /\ Len(calls) = 1
    /\ completions = <<>>

-----------------------------------------------------------------------------
(* C17 *)

\* the last segments of the control paths
ControlInterfaces == {"power", "channel", "input", "volume", "playback"}

\* C17: every control transport call (power, channel including SkipChannels,
\* input, volume, playback) is issued to /endpoints/{endpointId}/<interface>
\* and carries the access token of the directive in the query parameter
\* named access_token.
C17_ControlCallsCarryAccessToken ==
    (variant \in Versioned /\ WellFormed(event)
        /\ event.namespace \in ControlNamespaces) =>
        \A i \in DOMAIN calls :
            LET path == calls[i].path
            IN  /\ Len(path) >= 3
                /\ SubSeq(path, 1, 3) = <<"/", "endpoints", "/">>
                /\ \E k \in 4..Len(path) :
                    /\ path[k] \in ControlInterfaces
                    /\ path[k - 1] = "/"
                    /\ SubSeq(path, k + 1, Len(path))
                         = Query("access_token", event.token)

-----------------------------------------------------------------------------
(* C18 *)

\* the twelve values of the error type
ErrorTypeValues ==
    {"ENDPOINT_UNREACHABLE", "NO_SUCH_ENDPOINT", "INVALID_VALUE",
     "VALUE_OUT_OF_RANGE", "TEMPERATURE_VALUE_OUT_OF_RANGE",
     "INVALID_DIRECTIVE", "FIRMWARE_OUT_OF_RANGE", "HARDWARE_MALFUNCTION",
     "RATE_LIMIT_EXCEEDED", "INVALID_AUTHORIZATION_CREDENTIAL",
     "EXPIRED_AUTHORIZATION_CREDENTIAL", "INTERNAL_ERROR"}

\* m is a string: the concatenation of literal text, interpolated values and
\* JSON text
IsMessageString(m) ==
    /\ DOMAIN m = 1..Len(m)
    /\ \A k \in DOMAIN m :
        \/ DOMAIN m[k] = {"text"}
        \/ DOMAIN m[k] = {"json"}
        \/ DOMAIN m[k] = {"number"}

\* C18: in the versioned revisions every value passed to context.fail is an
\* Alexa/ErrorResponse envelope whose payload is exactly {type, message},
\* where type is one of the twelve values of ERROR_TYPES and message is a
\* string.
C18_FailValuesAreErrorEnvelopes ==
    variant \in Versioned =>
        \A i \in DOMAIN completions :
            completions[i].callback = "fail" =>
                LET arg == completions[i].arg
                IN  /\ "event" \in DOMAIN arg
                    /\ arg.event.header.namespace = "Alexa"
                    /\ arg.event.header.name = "ErrorResponse"
                    /\ DOMAIN arg.event.payload = {"type", "message"}
                    /\ arg.event.payload.type \in ErrorTypeValues
                    /\ arg.event.payload.type
                         \in {ERROR_TYPES[k] : k \in DOMAIN ERROR_TYPES}
                    /\ IsMessageString(arg.event.payload.message)

\* a versioned revision has answered a status other than 200 through
\* context.fail
C18_Witness ==
    /\ variant = "index.js"
    /\ Done
    /\ response.kind = "end"
    /\ response.status # 200
    /\ Len(completions) = 1
    /\ completions[1].callback = "fail"
    /\ completions[1].arg.event.payload.type = "INTERNAL_ERROR"

-----------------------------------------------------------------------------
(* C19 *)

\* the message string msg contains the text m: as one of its texts, or as the
\* message member of the JSON text of an object
MessageCarries(msg, m) ==
    \E k \in DOMAIN msg :
        \/ "text" \in DOMAIN msg[k] /\ msg[k].text = m
        \/ /\ "json" \in DOMAIN msg[k]
           /\ "message" \in DOMAIN msg[k].json
           /\ msg[k].json.message = m

\* C19: when a control transport call fails with an error whose message is
\* m, the message of the resulting ENDPOINT_UNREACHABLE error envelope
\* contains m.
C19_UnreachableMessageCarriesTheError ==
    (/\ variant \in Versioned
     /\ WellFormed(event)
     /\ event.namespace \in ControlNamespaces
     /\ Done
     /\ response.kind = "error"
     /\ FailedWith({"ENDPOINT_UNREACHABLE"})) =>
        MessageCarries(completions[1].arg.event.payload.message,
                       response.error.message)

-----------------------------------------------------------------------------
(* C20 *)

\* the transport has answered the call of a control directive with a status
\* other than 200
ControlAnsweredNon200 ==
    /\ WellFormed(event)
    /\ event.namespace \in ControlNamespaces \cup {LegacyControl}
    /\ calls # <<>>
    /\ Done
    /\ response.kind = "end"
    /\ response.status # 200

\* a power directive of the protocol of revision v
PowerEventOf(v) ==
    IF v \in Versioned
    THEN FullEvent(SUPPORTED_INTERFACES.Alexa_PowerController, "TurnOn", <<"t">>,
                   [present |-> TRUE, endpointId |-> <<"e1">>])
    ELSE FullEvent(LegacyControl, "TurnOnRequest", <<"t">>,
                   [present |-> TRUE, endpointId |-> <<"e1">>])

\* revision v answers a status other than 200 on its power call through
\* context.fail
FailsControlOnNon200(v) ==
    LET e == PowerEventOf(v)
        r == Run(v, e, 0)
    IN  /\ r.pending # "none"
        /\ \A body \in BodiesFor(r.pending) :
            LET o == End(v, r.pending, e, 404, body, 0)
            IN  \E i \in DOMAIN o.completions : o.completions[i].callback = "fail"

\* C20: within each revision a status other than 200 is treated alike by
\* every handler: no revision reports a control directive as succeeded when
\* the status was not 200, and no revision both fails its control directives
\* on such a status and reports the endpoints parsed from the body of a
\* discovery response of such a status.
C20_Non200IsTreatedConsistently ==
    /\ ControlAnsweredNon200 =>
        \A i \in DOMAIN completions : completions[i].callback # "succeed"
    /\ (/\ IsDiscoverDirective(variant, event)
        /\ Done
        /\ response.kind = "end"
        /\ response.status # 200
        /\ SucceededDiscovery
        /\ EndpointList(variant, completions[1].arg) # <<>>) =>
            ~FailsControlOnNon200(variant)

-----------------------------------------------------------------------------
(* C21 *)

\* the path segment of the interface a namespace is routed to
InterfacePath(ns) ==
    CASE ns = SUPPORTED_INTERFACES.Alexa_Discovery -> "endpoints"
      [] ns = SUPPORTED_INTERFACES.Alexa_PowerController -> "power"
      [] ns = SUPPORTED_INTERFACES.Alexa_ChannelController -> "channel"
      [] ns = SUPPORTED_INTERFACES.Alexa_InputController -> "input"
      [] ns = SUPPORTED_INTERFACES.Alexa_StepSpeaker -> "volume"
      [] ns = SUPPORTED_INTERFACES.Alexa_PlaybackController -> "playback"

\* a well-formed directive of the routing table: its namespace and name are
\* a pair of the table, it carries a token, and (but for Discover) an endpoint
RoutingTableDirective ==
    /\ variant \in Versioned
    /\ WellFormed(event)
    /\ event.namespace \in ControlNamespaces \cup {SUPPORTED_INTERFACES.Alexa_Discovery}
    /\ event.name \in SupportedNames(event.namespace)
    /\ event.token # undefinedString
    /\ event.namespace = SUPPORTED_INTERFACES.Alexa_Discovery \/ event.endpoint.present

\* C21: for every (namespace, directive name) pair of the routing table a
\* well-formed directive is routed to the handler of that interface, which
\* issues exactly one transport call, to the path of that interface
\* (endpoints, power, channel, input, volume, playback).
C21_RoutingTableIssuesOneCall ==
    (RoutingTableDirective /\ Invoked) =>
        /\ Len(calls) = 1
        /\ \E k \in DOMAIN calls[1].path :
            /\ calls[1].path[k] = InterfacePath(event.namespace)
            /\ k > 1
            /\ calls[1].path[k - 1] = "/"

-----------------------------------------------------------------------------
(* C22 *)

\* the call of a channel, input, step-speaker or playback directive with a
\* supported name has been answered with status 200 and a JSON object
OtherControlAnswered200 ==
    /\ SupportedControlDirective
    /\ event.namespace # SUPPORTED_INTERFACES.Alexa_PowerController
    /\ calls # <<>>
    /\ Done
    /\ response.kind = "end"
    /\ response.status = 200
    /\ response.body.kind = "object"

\* C22: for every ChangeChannel, SkipChannels, SelectInput, SetMute,
\* AdjustVolume and playback directive whose transport call returns status
\* 200 with a valid JSON body, the invocation ends through context.succeed
\* with an Alexa/Response event, and context.fail is not called.
C22_OtherControlSucceedsOn200 ==
    OtherControlAnswered200 =>
        /\ Len(completions) = 1
        /\ completions[1].callback = "succeed"
        /\ "event" \in DOMAIN completions[1].arg
        /\ completions[1].arg.event.header.namespace = "Alexa"
        /\ completions[1].arg.event.header.name = "Response"
        /\ thrown = "none"

-----------------------------------------------------------------------------
(* C23 *)

\* revision v keeps the descriptor d of a device list
Supports(v, d) ==
    CASE v \in {"part_000", "index.js", "code.js:438"} -> isEndpointSupported(v, d)
      [] v = "part_001:197" -> isDeviceSupported(d)
      [] OTHER -> isApplianceSupported(d)

\* the GET of a Discovery directive has ended with a device list, and the
\* invocation has succeeded with a discovery response
DiscoverySucceeded ==
    /\ IsDiscoverDirective(variant, event)
    /\ Done
    /\ response.kind = "end"
    /\ response.body.kind = "array"
    /\ SucceededDiscovery

\* the same, the status of the response being 200
DiscoveryListed == DiscoverySucceeded /\ response.status = 200

\* the entry revision v lists for the descriptor d when d is the whole body
EntryAlone(v, e, d) ==
    LET o == End(v, "discovery", e, 200, JSONarray(<<d>>), 0)
    IN  EndpointList(v, o.completions[1].arg)[1]

\* C23 as claimed: the endpoint list of a successful discovery response
\* contains exactly one entry per supported descriptor of the transport
\* response body, in the same order, and no entry for an unsupported
\* descriptor, whatever the status of the transport response.
C23_OneEntryPerDescriptorOfAnyBody ==
    DiscoverySucceeded =>
        LET list == EndpointList(variant, completions[1].arg)
            kept == SelectSeq(response.body.value, LAMBDA d : Supports(variant, d))
        IN  /\ Len(list) = Len(kept)
            /\ \A i \in DOMAIN list :
                    i <= Len(kept) => list[i] = EntryAlone(variant, event, kept[i])

\* C23 as amended: when the transport response has status 200, the endpoint
\* list of a successful discovery response contains exactly one entry per
\* supported descriptor of the transport response body, in the same order,
\* and no entry for an unsupported descriptor; the entry of a supported
\* descriptor is the one it gets when it is alone in the body, whatever
\* other descriptors the body holds.  (On another status part_000 and the
\* third revision of code.js answer an empty list whatever the body holds.)
C23_OneEntryPerSupportedDescriptor ==
    DiscoveryListed =>
        LET list == EndpointList(variant, completions[1].arg)
            kept == SelectSeq(response.body.value, LAMBDA d : Supports(variant, d))
        IN  /\ Len(list) = Len(kept)
            /\ \A i \in DOMAIN list :
                    i <= Len(kept) => list[i] = EntryAlone(variant, event, kept[i])

\* a revision has listed, in the order of the body, the two supported
\* descriptors of a body of two
C23_Witness ==
    /\ DiscoveryListed
    /\ variant = "code.js:438"
    /\ Len(response.body.value) = 2
    /\ response.body.value[1].type = "television"
    /\ response.body.value[2].type = "switchBinary"
    /\ Len(EndpointList(variant, completions[1].arg)) = 2
    /\ EndpointList(variant, completions[1].arg)[1].endpointId
            = response.body.value[1].id
    /\ EndpointList(variant, completions[1].arg)[2].endpointId
            = response.body.value[2].id

-----------------------------------------------------------------------------
(* C24 *)

\* the versioned revisions the claim compares
Compared == {"index.js", "code.js:438", "part_000"}

\* what revision v completes with for the event e when the transport
\* delivers resp to its call, if it issues one
ResultOf(v, e, resp) ==
    LET r == Run(v, e, 0)
    IN  IF r.pending = "none" THEN r.completions
        ELSE IF resp.kind = "end"
        THEN r.completions \o End(v, r.pending, e, resp.status, resp.body, 0).completions
        ELSE r.completions \o Err(v, r.pending, resp.error, 0).completions

\* the kind of each completion, and the error type of a fail
KindsOf(d) ==
    [i \in DOMAIN d |->
        [callback |-> d[i].callback,
         type |-> IF d[i].callback = "fail" /\ "event" \in DOMAIN d[i].arg
                        /\ "type" \in DOMAIN d[i].arg.event.payload
                  THEN d[i].arg.event.payload.type ELSE "none"]]

\* a directive with token and endpoint has been answered with one of the
\* transport outcomes of the claim: status 200 with a valid body, another
\* status, a transport error
ComparedOutcome ==
    /\ variant \in Compared
    /\ WellFormed(event)
    /\ event.token # undefinedString
    /\ event.endpoint.present
    /\ event.namespace \in ControlNamespaces \cup {SUPPORTED_INTERFACES.Alexa_Discovery}
    /\ Done
    /\ \/ response.kind = "error"
       \/ response.kind = "end" /\ response.status # 200
       \/ /\ response.kind = "end"
          /\ response.status = 200
          /\ response.body.kind =
                IF event.namespace = SUPPORTED_INTERFACES.Alexa_Discovery
                THEN "array" ELSE "object"

\* C24: index.js, the third revision of code.js and part_000 differ only in
\* field names and response wrapping: for the same inbound directive
\* (namespace and name) and the same transport outcome they complete with
\* the same kind of completion (succeed or fail) and, on fail, with the same
\* error type.
C24_VersionedRevisionsAgree ==
    ComparedOutcome =>
        \A w \in Compared :
            KindsOf(ResultOf(w, event, response)) = KindsOf(completions)

-----------------------------------------------------------------------------
(* C25 *)

\* C25: in the legacy (payloadVersion '2') revisions every outbound
\* envelope's header.namespace is one of the two fixed namespaces
\* 'Alexa.ConnectedHome.Discovery' and 'Alexa.ConnectedHome.Control', on
\* success and on every error path.
C25_LegacyNamespacesAreFixed ==
    variant \in Legacy =>
        \A i \in DOMAIN completions :
            "header" \in DOMAIN completions[i].arg =>
                completions[i].arg.header.namespace
                    \in {"Alexa.ConnectedHome.Discovery", "Alexa.ConnectedHome.Control"}

-----------------------------------------------------------------------------
(* C26 *)

\* C26: for every inbound event (well-formed or not) and in every revision,
\* once the transport call, when one is issued, has delivered the end of a
\* response or an error, the invocation has invoked context.succeed or
\* context.fail; no path ends with an uncaught exception or an unhandled
\* rejection in the place of a completion.
C26_EveryInvocationCompletes ==
    Done => (completions # <<>> /\ thrown = "none")

-----------------------------------------------------------------------------
(* C27 *)

-----------------------------------------------------------------------------
(* C28 *)

\* C28: in part_000 the encoding of the endpoint id is reversible: for every
\* backend endpoint id, decoding with getEndpointId (first '#' replaced by
\* '.') the endpointId that discovery emitted for it (first '.' replaced by
\* '#') yields the backend id again, so that a control call addresses the
\* device that discovery reported.
C28_EndpointIdRoundTrips ==
    (variant = "part_000" /\ probe.next = 3) => probe.ret = probe.type

-----------------------------------------------------------------------------
(* C29 *)

\* revision v issues a transport call for the directive of this interface
\* and name
IssuesCall(v, interface, name) ==
    Run(v, FullEvent(interface, name, <<"t">>,
                     [present |-> TRUE, endpointId |-> <<"e1">>]), 0).calls # <<>>

\* C29: in each versioned revision every capability interface that
\* discovery advertises for a device is a namespace that the dispatcher of
\* the same revision routes to a handler which, for the supported directive
\* names of that interface, issues a transport call; no advertised interface
\* is rejected as 'Unsupported namespace' or 'Not yet implemented'.
C29_AdvertisedInterfacesAreHandled ==
    DiscoveryAnswered =>
        LET list == EndpointList(variant, completions[1].arg)
        IN  \A i \in DOMAIN list :
                \A interface \in Interfaces(list[i].capabilities) :
                    \A name \in SupportedNames(interface) :
                        IssuesCall(variant, interface, name)

-----------------------------------------------------------------------------
(* C30 *)

\* the access tokens an event may carry
PresentTokens == Tokens \ {undefinedString}

\* C30: no envelope passed to context.succeed or context.fail contains the
\* access token of the inbound event: two inbound events that differ only
\* in their access token produce outbound envelopes that are equal (the
\* messageId being that of some clock reading), on success paths and on
\* every error path including the malformed-event path.
C30_EnvelopesDoNotDependOnTheToken ==
    (Done /\ event.shape = "full" /\ event.token \in PresentTokens) =>
        \A tok \in PresentTokens :
            \E t0, t1 \in Clock :
                Alone([event EXCEPT !.token = tok], response, t0, t1).completions
                    = completions

=============================================================================
